---- MODULE Spec2Model ----
(***************************************************************************)
(* Model of the two recommendation engines of the movie recommender:       *)
(*   - movies/recommender/collabfiltering.py  (user-based CF engine)       *)
(*   - movies/recommender/contentbase.py      (embedding / kNN engine)     *)
(* together with the writers of the rating store (movies/api.py,           *)
(* movies/admin.py, management/commands/import_ratings.py).                *)
(*                                                                         *)
(* Numbers.  Python floats are modelled in fixed point: a real x is the    *)
(* integer floor(x * Scale).  Ratings are small integers and are exact.    *)
(* Python lists and numpy arrays are functions on 0..n-1, as in the code.  *)
(* None (for the matrix and the means) is the empty function <<>>.         *)
(***************************************************************************)
EXTENDS Integers, Sequences, FiniteSets, TLC

VARIABLES
    \* ---- the database (Django models) ----
    ratings,            \* UserMovieRating: <<user_id, movie_id>> -> rating
    catalog,            \* Movie: id -> [title, genres]
    \* ---- DjangoCollaborativeFiltering instance ----
    cf_engine,          \* _cf_engine is not None
    min_movie_ratings, min_user_ratings, k_neighbors,
    R, user_ids, movie_ids, user_index, movie_index, user_means, rating_count,
    \* ---- the last call and what it returned ----
    call, result,
    \* ---- history: what the last call did ----
    hist,
    writes,             \* number of store writes so far (bounded)
    \* ---- the content engine (contentbase.py) ----
    disk,               \* the three pickle files: name -> content, or NoFile
    artifacts,          \* _ARTIFACTS: key -> value, or None
    \* ---- threads of the server process ----
    threads,            \* thread -> the call it is in, its position and its locals
    build_lock,         \* _build_lock: the thread holding it, or NoThread
    encodes             \* number of runs of the embedding computation so far

vars == <<ratings, catalog, cf_engine, min_movie_ratings, min_user_ratings,
          k_neighbors, R, user_ids, movie_ids, user_index, movie_index,
          user_means, rating_count, call, result, hist, writes, disk, artifacts,
          threads, build_lock, encodes>>

dbVars == <<ratings, catalog, writes>>
paramVars == <<min_movie_ratings, min_user_ratings, k_neighbors>>
matrixVars == <<R, user_ids, movie_ids, user_index, movie_index, user_means>>
engineVars == <<matrixVars, rating_count>>
threadVars == <<threads, build_lock, encodes>>
contentVars == <<disk, artifacts, threadVars>>

-----------------------------------------------------------------------------
(* Bounds of the model *)

NUsers == 3
NMovies == 4
MaxMin == 2
MaxWrites == 1
MaxTopK == 2
MaxSel == 1

(* Program constants *)

MinRating == 1
MaxRating == 5
DefaultMinMovieRatings == 2
DefaultMinUserRatings == 2
DefaultKNeighbors == 30

\* fixed-point unit of the float values (means, similarities, predictions)
Scale == 1000

Users == 1..NUsers
Movies == 1..NMovies
RatingScale == MinRating..MaxRating

\* np.nan in the float32 matrix
NaN == -1
\* self.R = None / self.user_means = None
NoMatrix == <<>>

-----------------------------------------------------------------------------
(* Generic helpers *)

Max(a, b) == IF a >= b THEN a ELSE b
Min(a, b) == IF a <= b THEN a ELSE b
Abs(a) == IF a >= 0 THEN a ELSE 0 - a

RECURSIVE SumOver(_, _)
SumOver(S, f) ==
    IF S = {} THEN 0
    ELSE LET x == CHOOSE y \in S : TRUE IN f[x] + SumOver(S \ {x}, f)

\* floor(sqrt(n)) by bisection on lo..hi
RECURSIVE IsqrtIn(_, _, _)
IsqrtIn(n, lo, hi) ==
    IF lo >= hi THEN lo
    ELSE LET mid == (lo + hi + 1) \div 2
         IN  IF mid * mid <= n THEN IsqrtIn(n, mid, hi) ELSE IsqrtIn(n, lo, mid - 1)

Isqrt(n) == IsqrtIn(n, 0, Scale + 1)

\* sorted(S) as a Python list: the 0-based position of x in ascending order
Rank(x, S) == Cardinality({y \in S : y < x})
SortedList(S) == [i \in 0..(Cardinality(S) - 1) |-> CHOOSE x \in S : Rank(x, S) = i]
IndexOf(S) == [x \in S |-> Rank(x, S)]

Len0(list) == Cardinality(DOMAIN list)

-----------------------------------------------------------------------------
(* MATRIX BUILD: DjangoCollaborativeFiltering._build_matrix_from_df *)

\* df["movie_id"].value_counts() / df["user_id"].value_counts()
MovieCounts(df, m) == Cardinality({p \in DOMAIN df : p[2] = m})
UserCounts(df, u) == Cardinality({p \in DOMAIN df : p[1] = u})

\* the two isin() filters; both count tables are taken from the unfiltered frame
FilterDf(df, minM, minU) ==
    [p \in {q \in DOMAIN df : MovieCounts(df, q[2]) >= minM /\ UserCounts(df, q[1]) >= minU}
        |-> df[p]]

\* df["user_id"].unique() / df["movie_id"].unique()
FrameUsers(f) == {p[1] : p \in DOMAIN f}
FrameMovies(f) == {p[2] : p \in DOMAIN f}

\* np.nanmean of one row, in fixed point
NanMean(row) ==
    LET known == {j \in DOMAIN row : row[j] # NaN}
    IN  (SumOver(known, row) * Scale) \div Cardinality(known)

\* R = np.full(..., np.nan) and the fill loop
FillMatrix(f, uids, mids) ==
    [i \in DOMAIN uids |->
        [j \in DOMAIN mids |->
            IF <<uids[i], mids[j]>> \in DOMAIN f THEN f[<<uids[i], mids[j]>>] ELSE NaN]]

\* self.R = R; self.user_means = np.nanmean(self.R, axis=1)
AssignMatrix(f, uids, mids, mat) ==
    [ok |-> TRUE,
     user_ids |-> uids, movie_ids |-> mids,
     user_index |-> IndexOf(FrameUsers(f)), movie_index |-> IndexOf(FrameMovies(f)),
     R |-> mat,
     user_means |-> [i \in DOMAIN mat |-> NanMean(mat[i])]]

IndexFrame(f, uids, mids) == AssignMatrix(f, uids, mids, FillMatrix(f, uids, mids))

\* the filtered frame f: raise ValueError when it is empty, else build
BuildFiltered(f) ==
    IF DOMAIN f = {}
    THEN [ok |-> FALSE]
    ELSE IndexFrame(f, SortedList(FrameUsers(f)), SortedList(FrameMovies(f)))

\* the state _build_matrix_from_df assigns; ok = FALSE when it raises ValueError
BuildMatrixFromDf(df, minM, minU) == BuildFiltered(FilterDf(df, minM, minU))

-----------------------------------------------------------------------------
(* SIMILARITY: DjangoCollaborativeFiltering._cosine *)

\* 0.3 and 0.05 of the boost rule, in fixed point
BoostCap == (3 * Scale) \div 10
BoostStep == (5 * Scale) \div 100

\* an agreement score taken from the signed difference ru - rv
RECURSIVE AgreementScore_Signed(_, _, _, _, _)
AgreementScore_Signed(a, b, mindex, selected_ids, n) ==
    IF n = 0 THEN 0
    ELSE IF selected_ids[n] \notin DOMAIN mindex
         THEN AgreementScore_Signed(a, b, mindex, selected_ids, n - 1)
         ELSE LET ru == a[mindex[selected_ids[n]]]
                  rv == b[mindex[selected_ids[n]]]
              IN  AgreementScore_Signed(a, b, mindex, selected_ids, n - 1)
                  + (IF ru = NaN \/ rv = NaN THEN 0
                     ELSE IF 2 * (ru - rv) <= 1 THEN 2
                     ELSE IF 2 * (ru - rv) <= 3 THEN 1
                     ELSE 0)

\* agreement_score accumulated over selected_ids[1..n] for the rows a, b
RECURSIVE AgreementScore(_, _, _, _, _)
AgreementScore(a, b, mindex, selected_ids, n) ==
    IF n = 0 THEN 0
    ELSE IF selected_ids[n] \notin DOMAIN mindex
         THEN AgreementScore(a, b, mindex, selected_ids, n - 1)
         ELSE LET ru == a[mindex[selected_ids[n]]]
                  rv == b[mindex[selected_ids[n]]]
              IN  AgreementScore(a, b, mindex, selected_ids, n - 1)
                  + (IF ru = NaN \/ rv = NaN THEN 0
                     ELSE IF 2 * Abs(ru - rv) <= 1 THEN 2
                     ELSE IF 2 * Abs(ru - rv) <= 3 THEN 1
                     ELSE 0)

\* np.dot(a2, b2) over the co-rated columns
Dot(a, b, mask) == SumOver(mask, [j \in mask |-> a[j] * b[j]])

\* dot / sqrt(na * nb) in fixed point, with the sign of dot
Ratio(dot, na, nb) ==
    IF dot >= 0
    THEN Isqrt((((dot * dot) * Scale) \div (na * nb)) * Scale)
    ELSE 0 - Isqrt((((dot * dot) * Scale) \div (na * nb)) * Scale)

\* np.dot(a2, b2) / (norm(a2) * norm(b2))
BaseSim(a, b, mask) == Ratio(Dot(a, b, mask), Dot(a, a, mask), Dot(b, b, mask))

\* lines 145-154: the boost of a positive agreement score, clamped into [0, 1]
Boost(base_sim, agreement_score) ==
    IF agreement_score > 0
    THEN Max(0, Min(Scale, base_sim + Min(BoostCap, agreement_score * BoostStep)))
    ELSE base_sim

\* _cosine once the rows a, b and their co-rated columns are known
CosineRows(a, b, mask, mindex, selected_ids) ==
    IF Cardinality(mask) < 2 THEN 0
    ELSE IF Dot(a, a, mask) = 0 \/ Dot(b, b, mask) = 0 THEN 0
    ELSE IF Len(selected_ids) = 0 THEN BaseSim(a, b, mask)
    ELSE Boost(BaseSim(a, b, mask),
               AgreementScore(a, b, mindex, selected_ids, Len(selected_ids)))

Cosine(Rm, mindex, u_idx, v_idx, selected_ids) ==
    CosineRows(Rm[u_idx], Rm[v_idx],
               {j \in DOMAIN Rm[u_idx] : Rm[u_idx][j] # NaN /\ Rm[v_idx][j] # NaN},
               mindex, selected_ids)

(* float32.  R is a float32 array (line 76), so the norms, their product and   *)
(* the quotient of line 120 are float32 operations, each rounded to nearest   *)
(* (ties to even) on a 24-bit significand.  The fixed-point BaseSim cannot    *)
(* tell 1.0 from the float next to it, so the rounding is computed exactly    *)
(* here: a positive float32 is [m, e] with value m * 2^e, 2^23 <= m < 2^24,   *)
(* and a 48-bit integer is a pair <<hi, lo>> with value hi * 2^24 + lo.       *)
Two12 == 4096
Two23 == 8388608
Two24 == 16777216

RECURSIVE Pow2(_)
Pow2(k) == IF k <= 0 THEN 1 ELSE 2 * Pow2(k - 1)

\* hi * 2^24 + raw, with raw < 2^26, as a pair
Carry(hi, raw) == <<hi + (raw \div Two24), raw % Two24>>

\* (a1 * 2^12 + b1) * (a2 * 2^12 + b2) as a pair
MulLimbs(a1, b1, a2, b2) ==
    Carry((a1 * a2) + (((a1 * b2) + (a2 * b1)) \div Two12),
          ((((a1 * b2) + (a2 * b1)) % Two12) * Two12) + (b1 * b2))

\* x * y for x, y < 2^24
MulWide(x, y) == MulLimbs(x \div Two12, x % Two12, y \div Two12, y % Two12)

PairLeq(p, q) == p[1] < q[1] \/ (p[1] = q[1] /\ p[2] <= q[2])

\* floor(sqrt(N)) for the pair N, by bisection on lo..hi
RECURSIVE SqrtWideIn(_, _, _)
SqrtWideIn(N, lo, hi) ==
    IF lo >= hi THEN lo
    ELSE IF PairLeq(MulWide((lo + hi + 1) \div 2, (lo + hi + 1) \div 2), N)
         THEN SqrtWideIn(N, (lo + hi + 1) \div 2, hi)
         ELSE SqrtWideIn(N, lo, ((lo + hi + 1) \div 2) - 1)

\* the significand m of sqrt(N) rounded to nearest: up when N > m^2 + m
RoundSqrt(N, m, sq) == IF PairLeq(N, Carry(sq[1], sq[2] + m)) THEN m ELSE m + 1

Normal(m, e) == IF m = Two24 THEN [m |-> Two23, e |-> e + 1] ELSE [m |-> m, e |-> e]

\* sqrt(n) in float32 for an integer n with 4^p <= n < 4^(p+1)
SqrtScaled(N, m, p) == Normal(RoundSqrt(N, m, MulWide(m, m)), p - 23)
SqrtWithExp(n, p) ==
    SqrtScaled(<<n * (Two24 \div Pow2(2 * p + 2)), 0>>,
               SqrtWideIn(<<n * (Two24 \div Pow2(2 * p + 2)), 0>>, Two23, Two24 - 1), p)

RECURSIVE Log4(_)
Log4(n) == IF n < 4 THEN 0 ELSE 1 + Log4(n \div 4)

\* np.linalg.norm(a2) = sqrt(a2.dot(a2)) for a sum of squares n >= 1
Sqrt32(n) == SqrtWithExp(n, Log4(n))

\* the pair <<hi, lo>> with exponent e of its unit, rounded to 24 bits
RoundUp(m, rem, half) == IF rem > half \/ (rem = half /\ m % 2 = 1) THEN m + 1 ELSE m
RoundWide(P, e) ==
    IF P[1] >= Two23
    THEN Normal(RoundUp(P[1], P[2], Two23), e + 24)
    ELSE Normal(RoundUp((2 * P[1]) + (P[2] \div Two23), P[2] % Two23, Two23 \div 2), e + 23)

\* x * y in float32
Mul32(x, y) == RoundWide(MulWide(x.m, y.m), x.e + y.e)

\* denom = np.linalg.norm(a2) * np.linalg.norm(b2)  (line 116)
Denom32(na, nb) == Mul32(Sqrt32(na), Sqrt32(nb))

\* the float32 quotient dot / denom is above 1.0: dot, an integer, lies on the
\* grid of denom, so the quotient rounds above 1.0 exactly when dot > denom
QuotientAboveOne(dot, denom) == denom.e <= 0 /\ Pow2(0 - denom.e) > (denom.m \div dot)

\* base_sim of line 120 is above 1.0.  The norms and their product carry a
\* relative error below 2^-22, and rows that are not collinear have
\* dot^2 <= na * nb - 1, a relative gap above 2^-16 for sums of squares of
\* ratings, so only collinear rows need the float32 computation.
BaseSimAboveOne(a, b, mask) ==
    /\ Dot(a, b, mask) > 0
    /\ Dot(a, b, mask) * Dot(a, b, mask) = Dot(a, a, mask) * Dot(b, b, mask)
    /\ QuotientAboveOne(Dot(a, b, mask), Denom32(Dot(a, a, mask), Dot(b, b, mask)))

\* _cosine returns a float above 1.0: base_sim is returned as it is at lines 124
\* and 154, and clamped at line 150 only when there is a boost
CosineRowsAboveOne(a, b, mask, mindex, selected_ids) ==
    /\ Cardinality(mask) >= 2
    /\ Dot(a, a, mask) # 0 /\ Dot(b, b, mask) # 0
    /\ Len(selected_ids) = 0
          \/ AgreementScore(a, b, mindex, selected_ids, Len(selected_ids)) = 0
    /\ BaseSimAboveOne(a, b, mask)

CosineAboveOne(Rm, mindex, u_idx, v_idx, selected_ids) ==
    CosineRowsAboveOne(Rm[u_idx], Rm[v_idx],
                       {j \in DOMAIN Rm[u_idx] : Rm[u_idx][j] # NaN /\ Rm[v_idx][j] # NaN},
                       mindex, selected_ids)

\* the order of an ascending sort read backwards: equal floats change places
SortsBefore_TiesReversed(sim, above, x, w) ==
    /\ x # w
    /\ \/ sim[x] > sim[w]
       \/ /\ sim[x] = sim[w]
          /\ IF sim[x] = Scale /\ above[x] # above[w] THEN above[x] ELSE x > w

\* x sorts before w: a larger float, or an equal one met earlier in the loop.  Of
\* two floats with the same fixed-point value the one above 1.0 is the larger (a
\* float above 1.0 has the fixed-point value Scale).
SortsBefore(sim, above, x, w) ==
    /\ x # w
    /\ \/ sim[x] > sim[w]
       \/ /\ sim[x] = sim[w]
          /\ IF sim[x] = Scale /\ above[x] # above[w] THEN above[x] ELSE x < w

\* sims.sort(key=sim, reverse=True)[:k] of the rows with sim > 0 (the sort is stable)
TopNeighbors(sim, above, sims, k) ==
    [i \in 1..Min(k, Cardinality(sims)) |->
        LET v == CHOOSE w \in sims :
                   Cardinality({x \in sims : SortsBefore(sim, above, x, w)}) = i - 1
        IN  [idx |-> v, sim |-> sim[v]]]

PositiveSims(sim, above, u_idx, k) ==
    TopNeighbors(sim, above, {v \in DOMAIN sim : v # u_idx /\ sim[v] > 0}, k)

(* DjangoCollaborativeFiltering._neighbors: the list of (v_idx, sim), sims > 0, *)
(* stable-sorted by sim descending, cut to k entries.                          *)
Neighbors(Rm, mindex, u_idx, selected_ids, k) ==
    PositiveSims([v \in DOMAIN Rm |->
                    IF v = u_idx THEN 0 ELSE Cosine(Rm, mindex, u_idx, v, selected_ids)],
                 [v \in DOMAIN Rm |->
                    v # u_idx /\ CosineAboveOne(Rm, mindex, u_idx, v, selected_ids)],
                 u_idx, k)

-----------------------------------------------------------------------------
(* PREDICTION *)

\* num and den of the mean-centred weighted average for column j
PredNum(Rm, means, neighbors, j) ==
    SumOver({i \in DOMAIN neighbors : Rm[neighbors[i].idx][j] # NaN},
            [i \in DOMAIN neighbors |->
                neighbors[i].sim * (Rm[neighbors[i].idx][j] * Scale - means[neighbors[i].idx])])

PredDen(Rm, neighbors, j) ==
    SumOver({i \in DOMAIN neighbors : Rm[neighbors[i].idx][j] # NaN},
            [i \in DOMAIN neighbors |-> Abs(neighbors[i].sim)])

\* Optional[float]
NoValue == [none |-> TRUE]
Value(x) == [none |-> FALSE, val |-> x]

\* self.R[u_idx, j] = np.nan  (line 202)
HideCell(Rm, u_idx, j) == [Rm EXCEPT ![u_idx][j] = NaN]

\* self.R[u_idx, j] = stored  (line 208: no neighbors; line 222: after the loop)
RestoreNoNeighbors(Rm, u_idx, j, stored) == [Rm EXCEPT ![u_idx][j] = stored]

\* a return that leaves the cell hidden
RestoreAfterLoop_Skipped(Rm, u_idx, j, stored) == Rm

RestoreAfterLoop(Rm, u_idx, j, stored) == [Rm EXCEPT ![u_idx][j] = stored]

\* user_mean = self.user_means[u_idx]  (line 204)
TargetMean(means, u_idx) == means[u_idx]

\* lines 221-227: restore the cell, return the weighted average or None
Weighted(R1, was_rated, stored, user_mean, num, den, u_idx, j) ==
    [R |-> IF was_rated THEN RestoreAfterLoop(R1, u_idx, j, stored) ELSE R1,
     value |-> IF den > 0 THEN Value(user_mean + (num \div den)) ELSE NoValue,
     exit |-> IF den > 0 THEN "predicted" ELSE "no_rater"]

\* lines 206-222 with the neighbor list in hand
PredictWith(R1, was_rated, stored, user_mean, neighbors, means, u_idx, j) ==
    IF Len(neighbors) = 0
    THEN [R |-> IF was_rated THEN RestoreNoNeighbors(R1, u_idx, j, stored) ELSE R1,
          value |-> NoValue, exit |-> "no_neighbors"]
    ELSE Weighted(R1, was_rated, stored, user_mean,
                  PredNum(R1, means, neighbors, j), PredDen(R1, neighbors, j), u_idx, j)

\* lines 204-205 on the matrix R1 whose target cell is hidden
PredictHidden(R1, was_rated, stored, mindex, means, k, u_idx, j) ==
    PredictWith(R1, was_rated, stored, TargetMean(means, u_idx),
                Neighbors(R1, mindex, u_idx, <<>>, k), means, u_idx, j)

\* lines 196-202: hide the target cell when it is rated
PredictCell(Rm, mindex, means, k, u_idx, j) ==
    PredictHidden(IF Rm[u_idx][j] # NaN THEN HideCell(Rm, u_idx, j) ELSE Rm,
                  Rm[u_idx][j] # NaN, Rm[u_idx][j], mindex, means, k, u_idx, j)

(* predict_single after _ensure_fresh (lines 191-227): the matrix it leaves *)
(* behind and the value it returns.                                         *)
PredictBody(Rm, uindex, mindex, means, k, user_id, movie_id) ==
    IF user_id \notin DOMAIN uindex \/ movie_id \notin DOMAIN mindex
    THEN [R |-> Rm, value |-> NoValue, exit |-> "unknown"]
    ELSE PredictCell(Rm, mindex, means, k, uindex[user_id], mindex[movie_id])

-----------------------------------------------------------------------------
(* RECOMMEND: DjangoCollaborativeFiltering._recommend_for_user *)

\* the ValueError messages of collabfiltering.py
ErrAuth == "Collaborative filtering requires an authenticated user."
ErrNoRatings == "No ratings found."
ErrFiltered == "Filtering removed too much data. CF cannot be built."
ErrUnknownUser == "User lacks enough ratings to run CF."
ErrNoNeighbors == "CF could not find similar users."
ErrNoPredictions == "No predictions generated."

Raised(msg) == [kind |-> "error", error |-> msg]
Returned(v) == [kind |-> "ok", value |-> v]
NoResult == [kind |-> "none"]

\* predictions that leave out the target user's mean
Preds_NoTargetMean(Rm, means, neighbors, u_idx) ==
    [j \in DOMAIN Rm[u_idx] |->
        IF Rm[u_idx][j] # NaN THEN NaN
        ELSE IF PredDen(Rm, neighbors, j) > 0
             THEN Max(0, PredNum(Rm, means, neighbors, j) \div PredDen(Rm, neighbors, j))
             ELSE NaN]

\* preds[j] (lines 287-306): NaN for a rated column or one without a contributing neighbor
Preds(Rm, means, neighbors, u_idx) ==
    [j \in DOMAIN Rm[u_idx] |->
        IF Rm[u_idx][j] # NaN THEN NaN
        ELSE IF PredDen(Rm, neighbors, j) > 0
             THEN means[u_idx] + (PredNum(Rm, means, neighbors, j) \div PredDen(Rm, neighbors, j))
             ELSE NaN]

\* np.where(mask)[0][np.argsort(preds[mask])[::-1]] (lines 312-313): every order of
\* the predicted columns that is non-increasing in preds (argsort leaves the order of
\* equal keys open)
CandidateOrders(preds) ==
    LET mask == {j \in DOMAIN preds : preds[j] # NaN}
        n == Cardinality(mask)
    IN  {s \in [1..n -> mask] :
            /\ \A a, b \in 1..n : a # b => s[a] # s[b]
            /\ \A a, b \in 1..n : a < b => preds[s[a]] >= preds[s[b]]}

\* a slice that cuts nothing
Slice_All(list, k) == list

\* list[:k]
Slice(list, k) ==
    IF k >= 0 THEN SubSeq(list, 1, Min(k, Len(list)))
    ELSE SubSeq(list, 1, Max(0, Len(list) + k))

InList(x, list) == \E i \in DOMAIN list : list[i] = x

\* a filter that keeps the selected movies
DropSelected_Kept(mids, selected) == mids

\* movie_ids = [m for m in movie_ids if m not in selected]  (line 317)
DropSelected(mids, selected) ==
    LET keep(m) == ~InList(m, selected) IN SelectSeq(mids, keep)

\* round(x, 2) of a fixed-point value (ties to even)
Round2(x) ==
    LET unit == Scale \div 100
        q == x \div unit
        r == x % unit
    IN  IF 2 * r > unit \/ (2 * r = unit /\ q % 2 = 1) THEN (q + 1) * unit ELSE q * unit

\* max(0.0, min(1.0, raw_pred / max_rating))
ScoreOf(raw_pred) == Max(0, Min(Scale, raw_pred \div MaxRating))

\* the result rows (lines 320-372); movies missing from the catalog are skipped
ResultRows(mids, preds, mindex, cat) ==
    LET inCat(m) == m \in DOMAIN cat
        kept == SelectSeq(mids, inCat)
    IN  [i \in DOMAIN kept |->
            [id |-> kept[i],
             title |-> cat[kept[i]].title,
             predicted_rating |-> Round2(preds[mindex[kept[i]]]),
             score |-> ScoreOf(preds[mindex[kept[i]]])]]

(* _recommend_for_user after _ensure_fresh (lines 275-372): the set of outcomes, *)
(* one per order argsort may produce.                                            *)
\* lines 308-372 with the predictions in hand
RankPreds(preds, mids, mindex, cat, selected, top_k) ==
    IF \A j \in DOMAIN preds : preds[j] = NaN THEN {Raised(ErrNoPredictions)}
    ELSE {Returned(ResultRows(
              Slice(DropSelected([i \in DOMAIN s |-> mids[s[i]]], selected), top_k),
              preds, mindex, cat)) : s \in CandidateOrders(preds)}

\* lines 283-306 with the neighbor list in hand
RecommendWith(Rm, mids, mindex, means, cat, u_idx, neighbors, selected, top_k) ==
    IF Len(neighbors) = 0 THEN {Raised(ErrNoNeighbors)}
    ELSE RankPreds(Preds(Rm, means, neighbors, u_idx), mids, mindex, cat, selected, top_k)

RecommendBody(Rm, mids, uindex, mindex, means, k, cat, user_id, selected, top_k) ==
    IF user_id \notin DOMAIN uindex THEN {Raised(ErrUnknownUser)}
    ELSE RecommendWith(Rm, mids, mindex, means, cat, uindex[user_id],
                       Neighbors(Rm, mindex, uindex[user_id], selected, k),
                       selected, top_k)

-----------------------------------------------------------------------------
(* CACHE: _build_matrix, _ensure_fresh, and the engine object as a record *)

\* the fields __init__ assigns (lines 35-42)
NewEngine ==
    [R |-> NoMatrix, user_ids |-> <<>>, movie_ids |-> <<>>, user_index |-> <<>>,
     movie_index |-> <<>>, user_means |-> NoMatrix, rating_count |-> 0]

Engine ==
    [R |-> R, user_ids |-> user_ids, movie_ids |-> movie_ids, user_index |-> user_index,
     movie_index |-> movie_index, user_means |-> user_means, rating_count |-> rating_count]

\* UserMovieRating.objects.count()
Count(df) == Cardinality(DOMAIN df)

(* _build_matrix (lines 48-55): df is the fetched frame, count the value the *)
(* later objects.count() returns.                                            *)
\* lines 54-55: the matrix state m is assigned, then self.rating_count
Install(e, m, count) ==
    IF ~m.ok THEN [eng |-> e, error |-> ErrFiltered]
    ELSE [eng |-> [R |-> m.R, user_ids |-> m.user_ids, movie_ids |-> m.movie_ids,
                   user_index |-> m.user_index, movie_index |-> m.movie_index,
                   user_means |-> m.user_means, rating_count |-> count],
          error |-> ""]

\* a build that clears the cached state before it starts
BuildMatrix_ClearsFirst(e, df, count, minM, minU) ==
    IF DOMAIN df = {} THEN [eng |-> NewEngine, error |-> ErrNoRatings]
    ELSE Install(NewEngine, BuildMatrixFromDf(df, minM, minU), count)

BuildMatrix(e, df, count, minM, minU) ==
    IF DOMAIN df = {} THEN [eng |-> e, error |-> ErrNoRatings]
    ELSE Install(e, BuildMatrixFromDf(df, minM, minU), count)

\* a freshness test that looks only for a missing matrix
IsStale_NoCount(e, current) == e.R = NoMatrix

\* the test of _ensure_fresh (line 88)
IsStale(e, current) == e.R = NoMatrix \/ current # e.rating_count

\* _ensure_fresh (lines 86-89)
Rebuild(b) == [eng |-> b.eng, error |-> b.error, stale |-> TRUE, rebuilt |-> b.error = ""]

EnsureFresh(e, df, minM, minU) ==
    IF IsStale(e, Count(df))
    THEN Rebuild(BuildMatrix(e, df, Count(df), minM, minU))
    ELSE [eng |-> e, error |-> "", stale |-> FALSE, rebuilt |-> FALSE]

(* predict_single (lines 182-227), whole: the engine it leaves and what it returns *)
PredictReturn(f, b) ==
    [eng |-> [f.eng EXCEPT !.R = b.R], result |-> Returned(b.value),
     fresh |-> f, exit |-> b.exit]

\* predict_single once _ensure_fresh has returned or raised f
PredictFresh(f, k, user_id, movie_id) ==
    IF f.error # ""
    THEN [eng |-> f.eng, result |-> Raised(f.error), fresh |-> f, exit |-> "raised"]
    ELSE PredictReturn(f, PredictBody(f.eng.R, f.eng.user_index, f.eng.movie_index,
                                      f.eng.user_means, k, user_id, movie_id))

PredictSingle(e, df, minM, minU, k, user_id, movie_id) ==
    PredictFresh(EnsureFresh(e, df, minM, minU), k, user_id, movie_id)

(* _recommend_for_user (lines 260-372), whole: the outcomes, one per argsort order *)
\* _recommend_for_user once _ensure_fresh has returned or raised f
RecommendFresh(f, cat, k, user_id, selected, top_k) ==
    IF f.error # ""
    THEN {[eng |-> f.eng, result |-> Raised(f.error), fresh |-> f]}
    ELSE {[eng |-> f.eng, result |-> r, fresh |-> f] :
            r \in RecommendBody(f.eng.R, f.eng.movie_ids, f.eng.user_index,
                                f.eng.movie_index, f.eng.user_means, k, cat,
                                user_id, selected, top_k)}

RecommendForUser(e, df, cat, minM, minU, k, user_id, selected, top_k) ==
    RecommendFresh(EnsureFresh(e, df, minM, minU), cat, k, user_id, selected, top_k)

\* a guard that turns away only a missing user
Rejected_NoneOnly(user) == ~user.present

\* recommend_collaborative's guard (line 408): user is None or not user.is_authenticated
Rejected(user) == ~user.present \/ ~user.is_authenticated

-----------------------------------------------------------------------------
(* The rating store and its writers *)

\* a table of (user_id, movie_id, rating) rows, unique on (user_id, movie_id)
StoreOf(T) ==
    [p \in {<<t[1], t[2]>> : t \in T} |-> (CHOOSE t \in T : <<t[1], t[2]>> = p)[3]]

\* rating files the import command may be given (the first is the scenario of the
\* specification)
Datasets ==
    { StoreOf({<<1,1,5>>, <<1,2,4>>, <<2,1,5>>, <<2,2,4>>, <<2,3,3>>, <<3,1,1>>}),
      StoreOf({<<1,1,5>>, <<1,2,4>>, <<2,1,5>>, <<2,2,4>>, <<2,3,3>>, <<2,4,5>>,
               <<3,1,4>>, <<3,2,5>>, <<3,3,5>>, <<3,4,2>>}),
      StoreOf({<<1,1,3>>, <<1,2,3>>, <<2,1,3>>, <<2,2,3>>, <<2,3,4>>, <<2,4,4>>}),
      StoreOf({<<1,1,4>>, <<1,2,3>>, <<2,1,5>>}),
      StoreOf({<<1,1,5>>, <<1,2,4>>, <<2,3,3>>, <<2,4,2>>, <<3,1,1>>, <<3,3,2>>}),
      StoreOf({}) }

Idle == [op |-> "idle"]
NoHist == [op |-> "none"]

Callers ==
    {[present |-> FALSE, is_authenticated |-> FALSE, id |-> 0],
     [present |-> TRUE, is_authenticated |-> FALSE, id |-> 0]}
    \cup {[present |-> TRUE, is_authenticated |-> TRUE, id |-> u] : u \in Users}

SelectedLists == UNION {[1..n -> Movies] : n \in 0..MaxSel}

\* RateMovieView.post: update_or_create(user, movie, defaults={"rating": rating})
UpdateOrCreate(df, u, m, r) ==
    [p \in DOMAIN df \cup {<<u, m>>} |-> IF p = <<u, m>> THEN r ELSE df[p]]

RateMovie(u, m, r) ==
    /\ call = Idle /\ writes < MaxWrites
    /\ m \in DOMAIN catalog
    /\ ratings' = UpdateOrCreate(ratings, u, m, r)
    /\ writes' = writes + 1
    /\ UNCHANGED <<catalog, cf_engine, paramVars, engineVars, call, result, hist, contentVars>>

\* Django admin (admin.py): delete one UserMovieRating row
AdminDeleteRating(p) ==
    /\ call = Idle /\ writes < MaxWrites
    /\ p \in DOMAIN ratings
    /\ ratings' = [q \in DOMAIN ratings \ {p} |-> ratings[q]]
    /\ writes' = writes + 1
    /\ UNCHANGED <<catalog, cf_engine, paramVars, engineVars, call, result, hist, contentVars>>

\* Django admin: delete one Movie; its ratings go with it (on_delete=CASCADE)
AdminDeleteMovie(m) ==
    /\ call = Idle /\ writes < MaxWrites
    /\ m \in DOMAIN catalog
    /\ catalog' = [x \in DOMAIN catalog \ {m} |-> catalog[x]]
    /\ ratings' = [q \in {p \in DOMAIN ratings : p[2] # m} |-> ratings[q]]
    /\ writes' = writes + 1
    /\ UNCHANGED <<cf_engine, paramVars, engineVars, call, result, hist, contentVars>>

\* import_ratings: rows of unknown movies are skipped, the table is emptied and refilled
ImportRatings(file) ==
    /\ call = Idle /\ writes < MaxWrites
    /\ ratings' = [q \in {p \in DOMAIN file : p[2] \in DOMAIN catalog} |-> file[q]]
    /\ writes' = writes + 1
    /\ UNCHANGED <<catalog, cf_engine, paramVars, engineVars, call, result, hist, contentVars>>

-----------------------------------------------------------------------------
(* Calls of the CF engine *)

SetEngine(e) ==
    /\ R' = e.R
    /\ user_ids' = e.user_ids
    /\ movie_ids' = e.movie_ids
    /\ user_index' = e.user_index
    /\ movie_index' = e.movie_index
    /\ user_means' = e.user_means
    /\ rating_count' = e.rating_count

\* recommend_collaborative(selected_ids, top_k, user)  (lines 396-411)
RecommendCollaborative(user, selected, top_k) ==
    /\ call = Idle
    /\ call' = [op |-> "recommend_collaborative", user |-> user,
                selected |-> selected, top_k |-> top_k]
    /\ IF Rejected(user)
       THEN /\ result' = Raised(ErrAuth)
            /\ hist' = [op |-> "recommend", obtained |-> FALSE, counted |-> FALSE,
                        stale |-> FALSE, rebuilt |-> FALSE, before |-> Engine,
                        had_engine |-> cf_engine]
            /\ UNCHANGED <<cf_engine, engineVars>>
       ELSE \E o \in RecommendForUser(Engine, ratings, catalog, min_movie_ratings,
                                      min_user_ratings, k_neighbors, user.id,
                                      selected, top_k) :
              /\ cf_engine' = TRUE
              /\ SetEngine(o.eng)
              /\ result' = o.result
              /\ hist' = [op |-> "recommend", obtained |-> TRUE, counted |-> TRUE,
                          stale |-> o.fresh.stale, rebuilt |-> o.fresh.rebuilt,
                          before |-> Engine, had_engine |-> cf_engine]
    /\ UNCHANGED <<dbVars, paramVars, contentVars>>

\* engine.predict_single(user_id, movie_id)  (lines 182-227)
CallPredictSingle(user_id, movie_id) ==
    /\ call = Idle
    /\ call' = [op |-> "predict_single", user_id |-> user_id, movie_id |-> movie_id]
    /\ \E o \in {PredictSingle(Engine, ratings, min_movie_ratings, min_user_ratings,
                                k_neighbors, user_id, movie_id)} :
           /\ SetEngine(o.eng)
           /\ result' = o.result
           /\ hist' = [op |-> "predict", obtained |-> FALSE, counted |-> TRUE,
                       stale |-> o.fresh.stale, rebuilt |-> o.fresh.rebuilt,
                       before |-> Engine, fresh |-> o.fresh.eng, exit |-> o.exit]
    /\ UNCHANGED <<dbVars, paramVars, cf_engine, contentVars>>

\* the caller takes the result; the engine is idle again
Return ==
    /\ call # Idle
    /\ call' = Idle
    /\ result' = NoResult
    /\ hist' = NoHist
    /\ UNCHANGED <<dbVars, paramVars, cf_engine, engineVars, contentVars>>

-----------------------------------------------------------------------------
(* Specification of the CF engine over a changing rating store *)

\* the pickle files (lines 18-20) and the keys of _ARTIFACTS (lines 108-113)
Files == {"embeddings", "nn", "metadata"}
NoFile == [absent |-> TRUE]
NoFiles == [f \in Files |-> NoFile]
None == [none |-> TRUE]
NoArtifacts == [k \in Files \cup {"model"} |-> None]

\* no thread is inside a call; _build_lock is free
NoThread == 0
NoThreads == <<>>

\* pickle.dump(obj, f) / pickle.load(f): the file holds the serialised object
Dump(obj) == [pickled |-> obj]
Load(file) == file.pickled

\* movie titles as lists of characters
TitleTable ==
    << <<"A", "b">>, <<"a", "b">>, <<"B">>, <<"b", " ", "A">>, <<"B", "a">> >>
TitleOf(m) == TitleTable[(m % Len(TitleTable)) + 1]

\* constructor arguments (min_movie_ratings, min_user_ratings, k_neighbors): the
\* defaults of get_cf_engine's instance, and two instances built with small thresholds
EngineConfigs ==
    {<<DefaultMinMovieRatings, DefaultMinUserRatings, DefaultKNeighbors>>,
     <<1, 1, DefaultKNeighbors>>,
     <<1, 1, 1>>}

\* the ratings RateMovieView is sent: the two ends of the accepted range
RateInputs == {MinRating, MaxRating}

\* the arguments recommend_collaborative is called with
RecommendInputs ==
    {<<user, selected, top_k>> \in Callers \X SelectedLists \X (-1..MaxTopK) :
        Rejected(user) => (selected = <<>> /\ top_k = MaxTopK)}

Init ==
    /\ ratings \in Datasets
    /\ catalog = [m \in Movies |-> [title |-> TitleOf(m), genres |-> ""]]
    /\ cf_engine = FALSE
    /\ \E c \in EngineConfigs :
          /\ min_movie_ratings = c[1]
          /\ min_user_ratings = c[2]
          /\ k_neighbors = c[3]
    /\ R = NoMatrix /\ user_ids = <<>> /\ movie_ids = <<>> /\ user_index = <<>>
    /\ movie_index = <<>> /\ user_means = NoMatrix /\ rating_count = 0
    /\ call = Idle
    /\ result = NoResult
    /\ hist = NoHist
    /\ writes = 0
    /\ disk = NoFiles
    /\ artifacts = NoArtifacts
    /\ threads = NoThreads
    /\ build_lock = NoThread
    /\ encodes = 0

Next ==
    \/ \E u \in Users, m \in Movies, r \in RateInputs : RateMovie(u, m, r)
    \/ \E p \in Users \X Movies : AdminDeleteRating(p)
    \/ \E m \in Movies : AdminDeleteMovie(m)
    \/ \E file \in Datasets : ImportRatings(file)
    \/ \E in \in RecommendInputs : RecommendCollaborative(in[1], in[2], in[3])
    \/ \E u \in Users, m \in Movies : CallPredictSingle(u, m)
    \/ Return

Spec == Init /\ [][Next]_vars

-----------------------------------------------------------------------------
(* Specification of _build_matrix_from_df as a function of the frame it is given *)
(* (validate_cf hands it a training frame; _build_matrix hands it the store).    *)

\* the rating of the pair (u, m) in a frame
FrameRating(u, m) == ((u + 2 * m) % MaxRating) + 1

\* the frames: any set of (user, movie) pairs, at most one rating per pair
BuildFrames ==
    {[p \in S |-> FrameRating(p[1], p[2])] : S \in SUBSET (Users \X Movies)}

InitBuild ==
    /\ ratings \in BuildFrames
    /\ catalog = [m \in Movies |-> [title |-> TitleOf(m), genres |-> ""]]
    /\ cf_engine = FALSE
    /\ min_movie_ratings \in 1..MaxMin
    /\ min_user_ratings \in 1..MaxMin
    /\ k_neighbors = DefaultKNeighbors
    /\ R = NoMatrix /\ user_ids = <<>> /\ movie_ids = <<>> /\ user_index = <<>>
    /\ movie_index = <<>> /\ user_means = NoMatrix /\ rating_count = 0
    /\ call = Idle
    /\ result = NoResult
    /\ hist = NoHist
    /\ writes = 0
    /\ disk = NoFiles
    /\ artifacts = NoArtifacts
    /\ threads = NoThreads
    /\ build_lock = NoThread
    /\ encodes = 0

\* engine._build_matrix_from_df(df) with df the frame in ratings
CallBuildMatrixFromDf ==
    /\ call = Idle
    /\ call' = [op |-> "_build_matrix_from_df"]
    /\ \E m \in {BuildMatrixFromDf(ratings, min_movie_ratings, min_user_ratings)} :
          IF m.ok
          THEN /\ SetEngine([R |-> m.R, user_ids |-> m.user_ids, movie_ids |-> m.movie_ids,
                             user_index |-> m.user_index, movie_index |-> m.movie_index,
                             user_means |-> m.user_means, rating_count |-> rating_count])
               /\ result' = Returned(NoValue)
          ELSE /\ UNCHANGED engineVars
               /\ result' = Raised(ErrFiltered)
    /\ UNCHANGED <<dbVars, paramVars, cf_engine, hist, contentVars>>

NextBuild == CallBuildMatrixFromDf

SpecBuild == InitBuild /\ [][NextBuild]_vars

\* known cells of row i / column j of the built matrix
RowKnown(i) == Cardinality({j \in DOMAIN R[i] : R[i][j] # NaN})
ColKnown(j) == Cardinality({i \in DOMAIN R : R[i][j] # NaN})

BuildSucceeded == call.op = "_build_matrix_from_df" /\ result.kind = "ok"

(* C1: after _build_matrix_from_df succeeds, every retained user row holds at   *)
(* least min_user_ratings known cells and every retained movie column at least  *)
(* min_movie_ratings known cells.                                               *)
C1_ThresholdsHold ==
    BuildSucceeded =>
        /\ \A i \in DOMAIN R : RowKnown(i) >= min_user_ratings
        /\ \A j \in DOMAIN movie_ids : ColKnown(j) >= min_movie_ratings

-----------------------------------------------------------------------------
(* Properties of the CF engine under Spec *)

\* a call of an entry point that reaches the engine has just run
EngineCall == hist.op \in {"recommend", "predict"} /\ hist.counted

\* the test of line 88 on the engine as the call found it (no writer runs during a call)
FoundStale == hist.before.R = NoMatrix \/ Count(ratings) # hist.before.rating_count

\* the matrix state a build from the rows now in the store assigns
BuiltNow == BuildMatrixFromDf(ratings, min_movie_ratings, min_user_ratings)

\* the engine holds exactly the state a build from the store assigns
HoldsBuilt(m) ==
    /\ m.ok
    /\ R = m.R /\ user_ids = m.user_ids /\ movie_ids = m.movie_ids
    /\ user_index = m.user_index /\ movie_index = m.movie_index
    /\ user_means = m.user_means
    /\ rating_count = Count(ratings)

\* the result is the one the body of the entry point computes from engine state e
ComputedFrom(e) ==
    IF hist.op = "recommend"
    THEN result \in RecommendBody(e.R, e.movie_ids, e.user_index, e.movie_index,
                                  e.user_means, k_neighbors, catalog,
                                  call.user.id, call.selected, call.top_k)
    ELSE result = Returned(PredictBody(e.R, e.user_index, e.movie_index, e.user_means,
                                       k_neighbors, call.user_id, call.movie_id).value)

(* C2: predict_single and recommend run the freshness check before they read  *)
(* matrix state. Found stale (no matrix, or the live count differs from         *)
(* rating_count), the engine is rebuilt from the store and the result is        *)
(* computed from the rebuilt state; found fresh, nothing is rebuilt, the cached *)
(* state is left as it was and the result is computed from it.                  *)
C2_FreshnessFirst ==
    EngineCall =>
        /\ hist.stale = FoundStale
        /\ ~FoundStale => (~hist.rebuilt /\ Engine = hist.before /\ ComputedFrom(hist.before))
        /\ (FoundStale /\ hist.rebuilt) => (HoldsBuilt(BuiltNow) /\ ComputedFrom(Engine))
        /\ (FoundStale /\ ~hist.rebuilt) => (result.kind = "error" /\ Engine = hist.before)

\* a call found a matrix whose recorded count is out of date and rebuilt it
C2_Witness ==
    /\ EngineCall /\ hist.before.R # NoMatrix /\ hist.stale /\ hist.rebuilt
    /\ R # hist.before.R
    /\ result.kind = "ok"

\* a call found the cache fresh and answered from it
C2_WitnessFresh ==
    EngineCall /\ hist.before.R # NoMatrix /\ ~hist.stale /\ result.kind = "ok"

\* predict_single has just run on a known (user, movie) whose cell holds a rating
PredictedRatedCell ==
    /\ hist.op = "predict"
    /\ hist.exit \in {"no_neighbors", "no_rater", "predicted"}
    /\ hist.fresh.R[hist.fresh.user_index[call.user_id]][hist.fresh.movie_index[call.movie_id]] # NaN

(* C3: predict_single leaves the rating matrix as it was: with a fresh cache     *)
(* every cell after the call equals its value before the call, on every exit    *)
(* path (unknown id, no neighbors, no neighbor rated the movie, a prediction, a *)
(* failed rebuild); after a rebuild the matrix is the one built from the store, *)
(* so the hidden target cell is restored in every case.                         *)
C3_MatrixUnchanged ==
    hist.op = "predict" =>
        /\ R = hist.fresh.R
        /\ ~hist.rebuilt => R = hist.before.R
        /\ hist.rebuilt => R = BuiltNow.R
        /\ hist.exit \in {"raised", "unknown", "no_neighbors", "no_rater", "predicted"}
        /\ hist.exit = "raised" <=> result.kind = "error"

\* a prediction was returned for a cell that holds a rating, from a fresh cache
C3_Witness ==
    PredictedRatedCell /\ ~hist.stale /\ hist.exit = "predicted" /\ ~result.value.none

\* the other exits on a rated cell
C3_WitnessNoNeighbors == PredictedRatedCell /\ hist.exit = "no_neighbors"
C3_WitnessNoRater == PredictedRatedCell /\ hist.exit = "no_rater"

-----------------------------------------------------------------------------
(* Specification of predict_single on two engines built from stores that differ *)
(* only in the rating of the target cell.                                       *)

\* predict_single(user_id, movie_id) on a new engine over the store, and on a new
\* engine over the store with the rating at (user_id, movie_id) set to other
PredictTwins(user_id, movie_id, other) ==
    /\ call = Idle
    /\ <<user_id, movie_id>> \in DOMAIN ratings
    /\ other # ratings[<<user_id, movie_id>>]
    /\ call' = [op |-> "predict_twins", user_id |-> user_id, movie_id |-> movie_id,
                other |-> other]
    /\ \E a \in {PredictSingle(NewEngine, ratings, min_movie_ratings, min_user_ratings,
                               k_neighbors, user_id, movie_id)},
          b \in {PredictSingle(NewEngine, UpdateOrCreate(ratings, user_id, movie_id, other),
                               min_movie_ratings, min_user_ratings,
                               k_neighbors, user_id, movie_id)} :
          /\ SetEngine(a.eng)
          /\ result' = [kind |-> "twins", first |-> a.result, second |-> b.result]
          /\ hist' = [op |-> "twins", first |-> a.exit, second |-> b.exit]
    /\ UNCHANGED <<dbVars, paramVars, cf_engine, contentVars>>

NextLeak ==
    \/ \E u \in Users, m \in Movies, r \in RatingScale : PredictTwins(u, m, r)
    \/ Return

SpecLeak == Init /\ [][NextLeak]_vars

(* C4: predict_single returns the same result on two built engines whose rating *)
(* sets differ only in the value of the rating at the target (user, movie).     *)
C4_NoLeak ==
    call.op = "predict_twins" => result.first = result.second

\* the CF recommend call has just returned a list
RecommendReturned == hist.op = "recommend" /\ result.kind = "ok"

\* the ids of the returned rows
ReturnedIds == {result.value[i].id : i \in DOMAIN result.value}

\* the target user's row index, neighbor list and predictions in the engine as it is
TargetRow == user_index[call.user.id]
TargetNeighbors == Neighbors(R, movie_index, TargetRow, call.selected, k_neighbors)
TargetPreds == Preds(R, user_means, TargetNeighbors, TargetRow)

\* some neighbor of the target user has a rating in column j
NeighborRated(j) == \E n \in DOMAIN TargetNeighbors : R[TargetNeighbors[n].idx][j] # NaN

(* C5: a list returned by CF recommend never contains a movie the user has a    *)
(* rating for in the matrix, a movie id in selected_ids, or a movie no neighbor *)
(* of the user has rated.                                                       *)
C5_NoRatedSelectedUnsupported ==
    RecommendReturned =>
        \A m \in ReturnedIds :
            /\ m \in DOMAIN movie_index
            /\ R[TargetRow][movie_index[m]] = NaN
            /\ \A i \in DOMAIN call.selected : call.selected[i] # m
            /\ NeighborRated(movie_index[m])

\* a non-empty list came back although a selected movie was a predicted candidate
C5_Witness ==
    /\ RecommendReturned
    /\ Len(result.value) > 0
    /\ \E i \in DOMAIN call.selected :
          /\ call.selected[i] \in DOMAIN movie_index
          /\ TargetPreds[movie_index[call.selected[i]]] # NaN

\* a non-empty list came back although an unrated movie had no neighbor rating
C5_WitnessUnsupported ==
    /\ RecommendReturned
    /\ Len(result.value) > 0
    /\ \E j \in DOMAIN movie_ids : R[TargetRow][j] = NaN /\ ~NeighborRated(j)

\* the candidates of the ranking: unrated, predicted, not selected, in the catalog
Candidates ==
    {m \in DOMAIN movie_index :
        /\ R[TargetRow][movie_index[m]] = NaN
        /\ TargetPreds[movie_index[m]] # NaN
        /\ \A i \in DOMAIN call.selected : call.selected[i] # m
        /\ m \in DOMAIN catalog}

(* C6: for top_k >= 0 the CF recommend result has at most top_k entries, is in  *)
(* non-increasing order of predicted rating, and is a prefix of the ranking: no *)
(* candidate left out has a strictly higher prediction than a returned one.     *)
C6_TopKPrefix ==
    (RecommendReturned /\ call.top_k >= 0) =>
        /\ Len(result.value) <= call.top_k
        /\ \A a, b \in DOMAIN result.value :
              a < b => result.value[a].predicted_rating >= result.value[b].predicted_rating
        /\ ReturnedIds \subseteq Candidates
        /\ \A c \in Candidates \ ReturnedIds, r \in ReturnedIds :
              TargetPreds[movie_index[c]] <= TargetPreds[movie_index[r]]

\* top_k cut the ranking: top_k rows returned, a candidate left out
C6_Witness ==
    /\ RecommendReturned
    /\ call.top_k >= 1
    /\ Len(result.value) = call.top_k
    /\ Candidates \ ReturnedIds # {}

\* the caller of the last recommend call carries no authenticated user
Unidentified == ~call.user.present \/ ~call.user.is_authenticated

\* the failures of _recommend_for_user after the freshness check, in code order
BodyOutcome ==
    IF call.user.id \notin DOMAIN user_index THEN result = Raised(ErrUnknownUser)
    ELSE IF Len(TargetNeighbors) = 0 THEN result = Raised(ErrNoNeighbors)
    ELSE IF \A j \in DOMAIN TargetPreds : TargetPreds[j] = NaN
         THEN result = Raised(ErrNoPredictions)
    ELSE result.kind = "ok"

\* the rejection of line 408: nothing obtained, counted, rebuilt or changed
RejectedFirst ==
    /\ result = Raised(ErrAuth)
    /\ ~hist.obtained /\ cf_engine = hist.had_engine
    /\ ~hist.counted /\ ~hist.rebuilt
    /\ Engine = hist.before

(* C7 (as the code has it): CF recommend fails with the first applicable error  *)
(* in this order: no authenticated user (rejected before the engine is          *)
(* obtained, the count read or anything rebuilt); else, when the cache is found *)
(* stale, an empty store ("No ratings found.") or a build filtered to empty;    *)
(* else unknown-user; else no-neighbors; else no-predictions. A failure returns *)
(* no list, and a call none of these applies to returns one.                    *)
C7_ErrorOrder ==
    hist.op = "recommend" =>
        /\ result.kind \in {"ok", "error"}
        /\ IF Unidentified THEN RejectedFirst
           ELSE IF FoundStale /\ DOMAIN ratings = {} THEN result = Raised(ErrNoRatings)
           ELSE IF FoundStale /\ ~BuiltNow.ok THEN result = Raised(ErrFiltered)
           ELSE BodyOutcome

(* C7 as stated: after the authentication guard the first error is unknown-user *)
(* for a user absent from the user index, then no-neighbors, then               *)
(* no-predictions.                                                              *)
C7_StatedOrder ==
    hist.op = "recommend" =>
        IF Unidentified THEN RejectedFirst ELSE BodyOutcome

\* an identified user with neighbors for whom no unrated movie can be predicted
C7_Witness ==
    /\ hist.op = "recommend" /\ ~Unidentified
    /\ call.user.id \in DOMAIN user_index
    /\ Len(TargetNeighbors) > 0
    /\ result = Raised(ErrNoPredictions)

\* the other failures
C7_WitnessAuth == hist.op = "recommend" /\ Unidentified /\ hist.before.R # NoMatrix
C7_WitnessBuild == hist.op = "recommend" /\ result = Raised(ErrFiltered)
C7_WitnessUnknown ==
    hist.op = "recommend" /\ result = Raised(ErrUnknownUser) /\ ~hist.stale
C7_WitnessNoNeighbors == hist.op = "recommend" /\ result = Raised(ErrNoNeighbors)

-----------------------------------------------------------------------------
(* CONTENT ENGINE: contentbase.py *)

\* str.lower() and str.strip() on lists of characters
LowerChar(c) == CASE c = "A" -> "a" [] c = "B" -> "b" [] OTHER -> c
Lower(s) == [i \in DOMAIN s |-> LowerChar(s[i])]

NonSpace(s) == {i \in DOMAIN s : s[i] # " "}
Strip(s) ==
    IF NonSpace(s) = {} THEN <<>>
    ELSE SubSeq(s, CHOOSE i \in NonSpace(s) : \A k \in NonSpace(s) : i <= k,
                   CHOOSE j \in NonSpace(s) : \A k \in NonSpace(s) : k <= j)

\* key in t, for strings: key occurs in t as a contiguous run (the empty key always)
Contains(key, t) ==
    \E k \in 0..(Len(t) - Len(key)) : SubSeq(t, k + 1, k + Len(key)) = key

\* the elements of a selected list: an int, a str, or anything else
IntItem(x) == [type |-> "int", id |-> x]
StrItem(s) == [type |-> "str", title |-> s]
OtherItem == [type |-> "other"]

\* {mid: idx for idx, mid in enumerate(movie_ids)}: the last index of a key wins
IdToIndex(ids) ==
    [mid \in {ids[i] : i \in DOMAIN ids} |->
        CHOOSE i \in DOMAIN ids : ids[i] = mid /\ \A k \in DOMAIN ids : ids[k] = mid => k <= i]

\* {t.lower(): idx for idx, t in enumerate(titles)}
TitleToIndex(titles) ==
    [key \in {Lower(titles[i]) : i \in DOMAIN titles} |->
        CHOOSE i \in DOMAIN titles :
            Lower(titles[i]) = key /\ \A k \in DOMAIN titles : Lower(titles[k]) = key => k <= i]

\* next((i for i, t in enumerate(titles) if key in t.lower()), None), as a list
FirstContaining(key, titles) ==
    IF \E i \in DOMAIN titles : Contains(key, Lower(titles[i]))
    THEN << CHOOSE i \in DOMAIN titles :
                /\ Contains(key, Lower(titles[i]))
                /\ \A k \in DOMAIN titles : Contains(key, Lower(titles[k])) => i <= k >>
    ELSE <<>>

\* lines 172-180: the indices a string contributes
ResolveKey(key, titles) ==
    IF key \in DOMAIN TitleToIndex(titles)
    THEN << TitleToIndex(titles)[key] >>
    ELSE FirstContaining(key, titles)

\* a resolution that sends every element to index 0
ResolveItem_First(s, metadata) == <<0>>

\* lines 168-181: the indices one element of selected contributes
ResolveItem(s, metadata) ==
    IF s.type = "int"
    THEN IF s.id \in DOMAIN IdToIndex(metadata.movie_ids)
         THEN << IdToIndex(metadata.movie_ids)[s.id] >>
         ELSE <<>>
    ELSE IF s.type = "str"
         THEN ResolveKey(Lower(Strip(s.title)), metadata.titles)
         ELSE <<>>

\* _ids_to_indices(selected, metadata) over selected[1..n]
RECURSIVE IdsToIndicesUpTo(_, _, _)
IdsToIndicesUpTo(selected, metadata, n) ==
    IF n = 0 THEN <<>>
    ELSE IdsToIndicesUpTo(selected, metadata, n - 1) \o ResolveItem(selected[n], metadata)

IdsToIndices(selected, metadata) == IdsToIndicesUpTo(selected, metadata, Len(selected))

\* cosine distances in fixed point: a distance d is the integer d * DistScale
DistScale == 100000
MaxDist == 2 * DistScale

\* the cap and the margin of n_query (line 226)
QueryCap == 50
QueryMargin == 10

(* The embeddings come from the sentence-transformer model, which is not part of *)
(* the repository: a build draws one of these layouts. In a layout the movie at  *)
(* index i sits at the integer position Position(g, i) of a line, and one step   *)
(* of the line is the cosine distance StepOf(g).                                 *)
Layouts == {"scenario", "line"}

Position(g, i) ==
    IF g = "scenario"
    THEN CASE i = 7 -> 0 [] i = 3 -> 1 [] i = 9 -> 0 - 2 [] i = 2 -> 3 [] OTHER -> i + 4
    ELSE i

StepOf(g) == IF g = "scenario" THEN DistScale \div 10 ELSE 61728

\* np.mean(embeddings[indices], axis=0), times len(indices)  (lines 216-222)
QuerySum(emb, indices) ==
    SumOver(DOMAIN indices, [k \in DOMAIN indices |-> Position(emb.layout, indices[k])])

\* the cosine distance from the query to the vector the index holds at i
Distance(nn, qsum, qlen, i) ==
    Min(MaxDist, (Abs(Position(nn.layout, i) * qlen - qsum) * StepOf(nn.layout)) \div qlen)

\* the distance of every fitted vector from the query
DistanceTable(nn, qsum, qlen) ==
    {[dist |-> Distance(nn, qsum, qlen, i), idx |-> i] : i \in 0..(nn.n - 1)}

\* how the index orders two candidates at the same distance
TieBreaks == {"low", "high"}

Nearer(tie, a, b) ==
    \/ a.dist < b.dist
    \/ a.dist = b.dist /\ (IF tie = "low" THEN a.idx < b.idx ELSE b.idx < a.idx)

\* the candidates with their 0-based place in ascending distance
Ranked(table, tie) ==
    {[rank |-> Cardinality({x \in table : Nearer(tie, x, e)}), dist |-> e.dist, idx |-> e.idx] :
        e \in table}

Nearest(ranked, n_query) ==
    [r \in 1..n_query |-> CHOOSE e \in ranked : e.rank = r - 1]

(* nn.kneighbors(avg_emb, n_neighbors=n_query) on an index fitted on nn.n       *)
(* vectors: the list of (dist, idx), nearest first. scikit-learn raises         *)
(* ValueError when n_query is not positive or exceeds the number of vectors.    *)
KNeighbors(emb, nn, indices, n_query, tie) ==
    IF n_query <= 0 \/ n_query > nn.n
    THEN [ok |-> FALSE, list |-> <<>>]
    ELSE [ok |-> TRUE,
          list |-> Nearest(Ranked(DistanceTable(nn, QuerySum(emb, indices), Len(indices)),
                                  tie),
                           n_query)]

\* round(score, 4) of a score in DistScale units (ties to even)
Round4(x) ==
    LET unit == DistScale \div 10000
    IN  IF 2 * (x % unit) > unit \/ (2 * (x % unit) = unit /\ (x \div unit) % 2 = 1)
        THEN ((x \div unit) + 1) * unit
        ELSE (x \div unit) * unit

\* a score that is not clamped at 0
ScoreOfDist_Unclamped(dist) == DistScale - dist

\* score = float(max(0.0, 1.0 - float(dist)))  (line 242)
ScoreOfDist(dist) == Max(0, DistScale - dist)

\* the dict appended at lines 243-248
Recommendation(metadata, dist, idx) ==
    [id |-> metadata.movie_ids[idx], title |-> metadata.titles[idx],
     genres |-> metadata.genres[idx], score |-> Round4(ScoreOfDist(dist))]

\* the break test of line 249
Collected(recommendations, top_k) == Len(recommendations) >= top_k

\* the loop of lines 234-250 from position k of the neighbor list on
RECURSIVE Collect(_, _, _, _, _, _)
Collect(metadata, list, seen, recommendations, top_k, k) ==
    IF k > Len(list) THEN recommendations
    ELSE IF list[k].idx \in seen
         THEN Collect(metadata, list, seen, recommendations, top_k, k + 1)
         ELSE IF Collected(Append(recommendations,
                                  Recommendation(metadata, list[k].dist, list[k].idx)), top_k)
              THEN Append(recommendations, Recommendation(metadata, list[k].dist, list[k].idx))
              ELSE Collect(metadata, list, seen,
                           Append(recommendations,
                                  Recommendation(metadata, list[k].dist, list[k].idx)),
                           top_k, k + 1)

ErrKNeighbors == "Expected n_neighbors <= n_samples_fit"

\* lines 228-252 with the answer of the index in hand
CollectFrom(metadata, indices, nbrs, top_k) ==
    IF ~nbrs.ok THEN Raised(ErrKNeighbors)
    ELSE Returned(Collect(metadata, nbrs.list, {indices[k] : k \in DOMAIN indices},
                          <<>>, top_k, 1))

\* n_query = min(50, top_k + len(indices) + 10)  (line 226)
NQuery(top_k, indices) == Min(QueryCap, top_k + Len(indices) + QueryMargin)

\* lines 211-252 with the resolved indices in hand
RecommendFromIndices(art, indices, top_k, tie) ==
    IF Len(indices) = 0 THEN Returned(<<>>)
    ELSE CollectFrom(art.metadata, indices,
                     KNeighbors(art.embeddings, art.nn, indices, NQuery(top_k, indices), tie),
                     top_k)

\* recommend_content_based after ensure_artifacts_ready (lines 204-252)
RecommendContentBody(art, selected, top_k, tie) ==
    RecommendFromIndices(art, IdsToIndices(selected, art.metadata), top_k, tie)

\* the error messages of contentbase.py
ErrNoMovies == "No movies in DB to build the content-based model."
ErrNotFound == "Content-based artifacts not found. Run build first."

AllPersisted(d) == \A f \in Files : d[f] # NoFile

\* parallel lists whose titles run against the ids
MetadataOf_TitlesReversed(cat) ==
    [movie_ids |-> SortedList(DOMAIN cat),
     titles |-> [i \in DOMAIN SortedList(DOMAIN cat) |->
                   cat[SortedList(DOMAIN cat)[Cardinality(DOMAIN cat) - 1 - i]].title],
     genres |-> [i \in DOMAIN SortedList(DOMAIN cat) |-> cat[SortedList(DOMAIN cat)[i]].genres]]

\* lines 40-54 and 80-84: the parallel lists of the catalog, ordered by id
MetadataOf(cat) ==
    [movie_ids |-> SortedList(DOMAIN cat),
     titles |-> [i \in DOMAIN SortedList(DOMAIN cat) |-> cat[SortedList(DOMAIN cat)[i]].title],
     genres |-> [i \in DOMAIN SortedList(DOMAIN cat) |-> cat[SortedList(DOMAIN cat)[i]].genres]]

\* lines 64-72: the embeddings of the catalog in layout g, and the index fitted on them
EmbeddingsOf(cat, g) == [layout |-> g, n |-> Cardinality(DOMAIN cat)]

\* _build_and_persist (lines 29-86), under _build_lock, with embeddings in layout g
BuildAndPersist(d, cat, g) ==
    IF AllPersisted(d) THEN [disk |-> d, error |-> ""]
    ELSE IF DOMAIN cat = {} THEN [disk |-> d, error |-> ErrNoMovies]
    ELSE [disk |-> [f \in Files |->
                      IF f = "metadata" THEN Dump(MetadataOf(cat))
                      ELSE Dump(EmbeddingsOf(cat, g))],
          error |-> ""]

\* lines 132-138: the loaded artifacts go into _ARTIFACTS
Resident(art, d) ==
    [k \in DOMAIN art |->
        IF k = "model"
        THEN (IF art[k] = None THEN [name |-> "all-MiniLM-L6-v2"] ELSE art[k])
        ELSE Load(d[k])]

\* lines 123-138 once the files are there or the build has raised
LoadBuilt(art, b) ==
    IF b.error # "" THEN [artifacts |-> art, disk |-> b.disk, error |-> b.error]
    ELSE [artifacts |-> Resident(art, b.disk), disk |-> b.disk, error |-> ""]

\* an ensure_artifacts_ready that builds whatever its argument says
EnsureArtifactsReady_AlwaysRebuilds(art, d, cat, g, rebuild_if_missing) ==
    IF art["embeddings"] # None THEN [artifacts |-> art, disk |-> d, error |-> ""]
    ELSE IF AllPersisted(d) THEN [artifacts |-> Resident(art, d), disk |-> d, error |-> ""]
    ELSE LoadBuilt(art, BuildAndPersist(d, cat, g))

\* ensure_artifacts_ready(rebuild_if_missing)  (lines 116-138)
EnsureArtifactsReady(art, d, cat, g, rebuild_if_missing) ==
    IF art["embeddings"] # None THEN [artifacts |-> art, disk |-> d, error |-> ""]
    ELSE IF AllPersisted(d) THEN [artifacts |-> Resident(art, d), disk |-> d, error |-> ""]
    ELSE IF rebuild_if_missing THEN LoadBuilt(art, BuildAndPersist(d, cat, g))
    ELSE [artifacts |-> art, disk |-> d, error |-> ErrNotFound]

\* _ARTIFACTS as the names recommend_content_based binds (lines 204-207)
Bound(art) == [embeddings |-> art["embeddings"], nn |-> art["nn"], metadata |-> art["metadata"]]

\* recommend_content_based once ensure_artifacts_ready has returned or raised e
RecommendReady(e, selected, top_k, tie) ==
    IF e.error # "" THEN Raised(e.error)
    ELSE RecommendContentBody(Bound(e.artifacts), selected, top_k, tie)

\* recommend_content_based(selected_ids, top_k)  (lines 185-252)
RecommendContentBased(selected, top_k) ==
    /\ call = Idle
    /\ call' = [op |-> "recommend_content_based", selected |-> selected, top_k |-> top_k]
    /\ \E g \in Layouts, tie \in TieBreaks :
         \E e \in {EnsureArtifactsReady(artifacts, disk, catalog, g, TRUE)} :
            /\ disk' = e.disk
            /\ artifacts' = e.artifacts
            /\ result' = RecommendReady(e, selected, top_k, tie)
            /\ hist' = [op |-> "content", tie |-> tie, ready |-> e.error = "",
                        before |-> [disk |-> disk, artifacts |-> artifacts]]
    /\ UNCHANGED <<dbVars, paramVars, cf_engine, engineVars, threadVars>>

\* ensure_artifacts_ready(rebuild_if_missing) called on its own
CallEnsureArtifactsReady(rebuild_if_missing) ==
    /\ call = Idle
    /\ call' = [op |-> "ensure_artifacts_ready", rebuild_if_missing |-> rebuild_if_missing]
    /\ \E g \in Layouts :
         \E e \in {EnsureArtifactsReady(artifacts, disk, catalog, g, rebuild_if_missing)} :
            /\ disk' = e.disk
            /\ artifacts' = e.artifacts
            /\ result' = IF e.error # "" THEN Raised(e.error) ELSE Returned(None)
            /\ hist' = [op |-> "ensure", ready |-> e.error = "",
                        before |-> [disk |-> disk, artifacts |-> artifacts]]
    /\ UNCHANGED <<dbVars, paramVars, cf_engine, engineVars, threadVars>>

\* the server process restarts: the module globals are back at their initial
\* values (_ARTIFACTS, lines 108-113; _cf_engine, collabfiltering.py line 386)
Restart ==
    /\ call = Idle
    /\ artifacts # NoArtifacts \/ cf_engine
    /\ artifacts' = NoArtifacts
    /\ cf_engine' = FALSE
    /\ SetEngine(NewEngine)
    /\ UNCHANGED <<dbVars, paramVars, call, result, hist, disk, threadVars>>

\* lines 146-152 once _build_and_persist has returned or raised b
ReloadBuilt(art, b) ==
    IF b.error # "" THEN [artifacts |-> art, disk |-> b.disk, error |-> b.error]
    ELSE EnsureArtifactsReady(NoArtifacts, b.disk, <<>>, "", FALSE)

\* build_and_save_model()  (lines 141-152)
BuildAndSaveModel ==
    /\ call = Idle
    /\ call' = [op |-> "build_and_save_model"]
    /\ \E g \in Layouts :
         \E e \in {ReloadBuilt(artifacts, BuildAndPersist(disk, catalog, g))} :
            /\ disk' = e.disk
            /\ artifacts' = e.artifacts
            /\ result' = IF e.error # "" THEN Raised(e.error) ELSE Returned(None)
            /\ hist' = [op |-> "build", ready |-> e.error = "",
                        before |-> [disk |-> disk, artifacts |-> artifacts]]
    /\ UNCHANGED <<dbVars, paramVars, cf_engine, engineVars, threadVars>>

-----------------------------------------------------------------------------
(* Specification of the content engine over a changing catalog *)

NCatalog == 14
MaxContentTopK == 3
MaxContentSel == 2

\* the movie of the scenario: id 101 at embedding index 7
ScenarioId == 101
ScenarioIndex == 7

\* the ids of the catalog, ascending: index i holds id ScenarioId - ScenarioIndex + i
ContentMovies == (ScenarioId - ScenarioIndex)..(ScenarioId - ScenarioIndex + NCatalog - 1)

ContentCatalog == [m \in ContentMovies |-> [title |-> TitleOf(m), genres |-> "Drama|War"]]

\* the movies the admin deletes: the first, the one of the scenario, the last
DeletedMovies ==
    {ScenarioId - ScenarioIndex, ScenarioId, ScenarioId - ScenarioIndex + NCatalog - 1}

\* movies.csv as import_movies may find it: empty, or the full catalog
MovieFiles == {<<>>, ContentCatalog}

\* import_movies: every movie is deleted (ratings cascade), the file's rows are created
ImportMovies(file) ==
    /\ call = Idle /\ writes < MaxWrites
    /\ catalog' = file
    /\ ratings' = <<>>
    /\ writes' = writes + 1
    /\ UNCHANGED <<cf_engine, paramVars, engineVars, call, result, hist, contentVars>>

\* the elements a selected list is made of
ContentItems ==
    {IntItem(ScenarioId), IntItem(ScenarioId - ScenarioIndex), IntItem(0),
     StrItem(<<"a", "b">>), StrItem(<<" ", "B", " ">>), StrItem(<<" ", "A">>),
     StrItem(<<"z">>), StrItem(<<>>), OtherItem}

ContentSelections == UNION {[1..n -> ContentItems] : n \in 0..MaxContentSel}

InitContent ==
    /\ ratings = <<>>
    /\ catalog = ContentCatalog
    /\ cf_engine = FALSE
    /\ min_movie_ratings = DefaultMinMovieRatings
    /\ min_user_ratings = DefaultMinUserRatings
    /\ k_neighbors = DefaultKNeighbors
    /\ R = NoMatrix /\ user_ids = <<>> /\ movie_ids = <<>> /\ user_index = <<>>
    /\ movie_index = <<>> /\ user_means = NoMatrix /\ rating_count = 0
    /\ call = Idle
    /\ result = NoResult
    /\ hist = NoHist
    /\ writes = 0
    /\ disk = NoFiles
    /\ artifacts = NoArtifacts
    /\ threads = NoThreads
    /\ build_lock = NoThread
    /\ encodes = 0

NextContent ==
    \/ \E selected \in ContentSelections, top_k \in (0 - 1)..MaxContentTopK :
          RecommendContentBased(selected, top_k)
    \/ BuildAndSaveModel
    \/ \E rebuild_if_missing \in BOOLEAN : CallEnsureArtifactsReady(rebuild_if_missing)
    \/ Restart
    \/ \E m \in DeletedMovies : AdminDeleteMovie(m)
    \/ \E file \in MovieFiles : ImportMovies(file)
    \/ Return

SpecContent == InitContent /\ [][NextContent]_vars

-----------------------------------------------------------------------------
(* Properties of the content engine under SpecContent *)

\* recommend_content_based has just run with the artifacts available
ContentCall == hist.op = "content" /\ hist.ready

\* the metadata the call worked on
CallMetadata == artifacts["metadata"]

\* element s names a movie of the metadata: an int that is one of its ids, or a str
\* whose stripped, lower-cased form occurs in a lower-cased title (an exact match is
\* such an occurrence)
ItemResolves(s) ==
    \/ s.type = "int" /\ \E i \in DOMAIN CallMetadata.movie_ids : CallMetadata.movie_ids[i] = s.id
    \/ s.type = "str" /\ \E i \in DOMAIN CallMetadata.titles :
                            Contains(Lower(Strip(s.title)), Lower(CallMetadata.titles[i]))

IsResolvable(s) == ItemResolves(s)
ResolvableOnly(selected) == SelectSeq(selected, IsResolvable)

(* C8: with the artifacts available, recommend_content_based returns [] without *)
(* raising when no element of the selected list resolves, and the elements that *)
(* do not resolve leave the result as it is without them.                       *)
C8_UnresolvedDropped ==
    ContentCall =>
        /\ (\A i \in DOMAIN call.selected : ~ItemResolves(call.selected[i]))
              => result = Returned(<<>>)
        /\ result = RecommendContentBody(Bound(artifacts), ResolvableOnly(call.selected),
                                         call.top_k, hist.tie)

\* a list came back for a selection that mixes resolvable and unresolvable elements
C8_Witness ==
    /\ ContentCall
    /\ \E i, j \in DOMAIN call.selected :
          ItemResolves(call.selected[i]) /\ ~ItemResolves(call.selected[j])
    /\ result.kind = "ok" /\ Len(result.value) > 0

\* [] came back for a non-empty selection of which nothing resolves
C8_WitnessNone ==
    /\ ContentCall
    /\ Len(call.selected) = MaxContentSel
    /\ \A i \in DOMAIN call.selected : ~ItemResolves(call.selected[i])
    /\ result = Returned(<<>>)

\* the resolved indices of the call
CallIndices == IdsToIndices(call.selected, CallMetadata)

\* the answer of the index to the query made of the resolved indices ix
AnswerTo(ix) ==
    KNeighbors(artifacts["embeddings"], artifacts["nn"], ix, NQuery(call.top_k, ix), hist.tie)

\* the entries of the list whose index is not among ix
RECURSIVE Outside(_, _, _)
Outside(list, ix, n) ==
    IF n = 0 THEN <<>>
    ELSE IF \E k \in DOMAIN ix : ix[k] = list[n].idx
         THEN Outside(list, ix, n - 1)
         ELSE Append(Outside(list, ix, n - 1), list[n])

\* the candidates of the call: the index's answer, resolved indices removed
CandidatesOf(ix) == Outside(AnswerTo(ix).list, ix, Len(AnswerTo(ix).list))
CallCandidates == CandidatesOf(CallIndices)

\* a list came back for a selection that resolves
ContentReturned ==
    ContentCall /\ result.kind = "ok" /\ \E i \in DOMAIN call.selected : ItemResolves(call.selected[i])

\* max(0, 1 - d) for a distance d
ClampedScore(d) == IF d >= DistScale THEN 0 ELSE DistScale - d

\* row i of the result is candidate i of the list c, scored by rounding or exactly
RowIs(c, i, rounded) ==
    /\ result.value[i].id = CallMetadata.movie_ids[c[i].idx]
    /\ result.value[i].title = CallMetadata.titles[c[i].idx]
    /\ result.value[i].score =
          IF rounded THEN Round4(ClampedScore(c[i].dist)) ELSE ClampedScore(c[i].dist)

\* the scenario: layout "scenario", selected = [101], top_k = 3
ScenarioCall ==
    /\ ContentReturned
    /\ artifacts["nn"].layout = "scenario" /\ artifacts["nn"].n = NCatalog
    /\ call.selected = <<IntItem(ScenarioId)>>
    /\ call.top_k = 3

ScenarioAnswer ==
    /\ CallIndices = <<ScenarioIndex>>
    /\ [i \in 1..4 |-> AnswerTo(<<ScenarioIndex>>).list[i].idx] = <<7, 3, 9, 2>>
    /\ [i \in 1..4 |-> AnswerTo(<<ScenarioIndex>>).list[i].dist * 10]
          = <<0, DistScale, 2 * DistScale, 3 * DistScale>>
    /\ [i \in 1..3 |-> result.value[i].id - (ScenarioId - ScenarioIndex)] = <<3, 9, 2>>
    /\ [i \in 1..3 |-> result.value[i].score * 10] = <<9 * DistScale, 8 * DistScale, 7 * DistScale>>
    /\ Len(result.value) = 3

(* C9 (as the code has it): the result is the candidates of the index in the   *)
(* index's own order (ascending distance), those at a resolved index removed,  *)
(* cut once top_k rows are collected (never before the first), each row scored *)
(* max(0, 1 - distance) rounded to 4 decimals; in the scenario the rows are    *)
(* the movies at indices 3, 9, 2 with scores 0.9, 0.8, 0.7.                    *)
C9_CandidatesInOrder ==
    /\ ContentReturned =>
          \A c \in {CallCandidates} :
              /\ Len(result.value) = Min(Len(c), Max(call.top_k, 1))
              /\ \A i \in DOMAIN result.value : RowIs(c, i, TRUE)
              /\ \A i \in 1..(Len(c) - 1) : c[i].dist <= c[i + 1].dist
    /\ ScenarioCall => ScenarioAnswer

(* C9 as stated: the rows are the candidates in the index's order, resolved    *)
(* indices removed, each scored max(0, 1 - distance).                          *)
C9_StatedScores ==
    ContentReturned =>
        \A c \in {CallCandidates} :
            /\ Len(result.value) <= Len(c)
            /\ \A i \in DOMAIN result.value : RowIs(c, i, FALSE)

\* the scenario call has returned
C9_Witness == ScenarioCall /\ Len(result.value) = 3

\* a row was scored 0 for a candidate farther than distance 1
C9_WitnessClamped ==
    ContentReturned /\ \E c \in {CallCandidates} :
                          \E i \in DOMAIN result.value :
                              c[i].dist > DistScale /\ result.value[i].score = 0

\* the movies of the metadata outside the resolved set
OutsideResolved ==
    {i \in DOMAIN CallMetadata.movie_ids :
        \A s \in DOMAIN call.selected : <<i>> # ResolveItem(call.selected[s], CallMetadata)}

(* C10: for top_k >= 0 and a selection that resolves, the returned list has at  *)
(* most top_k entries, and exactly top_k when at least top_k movies lie outside *)
(* the resolved set.                                                            *)
C10_UpToTopK ==
    (ContentReturned /\ call.top_k >= 0) =>
        /\ Len(result.value) <= call.top_k
        /\ Cardinality(OutsideResolved) >= call.top_k => Len(result.value) = call.top_k

-----------------------------------------------------------------------------
(* CONTENT ENGINE, statement by statement: the calls of contentbase.py as   *)
(* they interleave when several request threads of the server run them.     *)
(* A step is one statement that touches the files, _ARTIFACTS or the lock.  *)

NThreads == 2
MaxCalls == 2

Threads == 1..NThreads

\* what the statements of contentbase.py leave alone
serverVars == <<dbVars, cf_engine, paramVars, engineVars, call, result, hist>>

\* the order in which the three files are written (75-86) and read (97-102) and
\* the keys of _ARTIFACTS are assigned (132-134), cleared (147-149), read (204-206)
FileOrder == <<"embeddings", "nn", "metadata">>

\* a file that open(path, "wb") has created and pickle.dump has not yet filled
Partial == [partial |-> TRUE]

\* the errors a thread can end a call with besides those of the build
ErrUnpickle == "EOFError: Ran out of input"
ErrUnset == "TypeError: 'NoneType' object"

NoLocals == [k \in Files |-> None]

IdleThread ==
    [name |-> "", pc |-> "idle", k |-> 0, rebuild_if_missing |-> FALSE, attempt |-> 0,
     built |-> NoLocals, loaded |-> NoLocals, read |-> NoLocals,
     result |-> NoResult, calls |-> 0]

\* the public functions of contentbase.py a thread may call
ThreadCalls ==
    {<<"ensure_artifacts_ready", TRUE>>, <<"ensure_artifacts_ready", FALSE>>,
     <<"recommend_content_based", TRUE>>, <<"build_and_save_model", FALSE>>,
     <<"_build_and_persist", FALSE>>}

\* the arguments of the recommend_content_based calls of the threads
ThreadSelected == <<IntItem(ScenarioId)>>
ThreadTopK == 1

\* the thread's call ends, returning or raising res
Finish(t, res) ==
    threads' = [threads EXCEPT ![t] =
                   [IdleThread EXCEPT !.name = threads[t].name, !.result = res,
                                      !.calls = threads[t].calls + 1]]

Goto(t, pc, k) == threads' = [threads EXCEPT ![t].pc = pc, ![t].k = k]

\* a thread enters one of the public functions
StartCall(t, name, rebuild_if_missing) ==
    /\ threads[t].pc = "idle" /\ threads[t].calls < MaxCalls
    /\ threads' = [threads EXCEPT ![t] =
                      [IdleThread EXCEPT
                          !.name = name,
                          !.pc = IF name \in {"build_and_save_model", "_build_and_persist"}
                                 THEN "acquire" ELSE "ensure_check",
                          !.rebuild_if_missing = rebuild_if_missing,
                          !.attempt = 1,
                          !.calls = threads[t].calls]]
    /\ UNCHANGED <<serverVars, disk, artifacts, build_lock, encodes>>

\* ensure_artifacts_ready returns to the function that called it
EnsureReturns(t) ==
    IF threads[t].name = "recommend_content_based"
    THEN Goto(t, "read", 1)
    ELSE Finish(t, Returned(None))

\* line 120: if _ARTIFACTS["embeddings"] is not None: return
EnsureCheck(t) ==
    /\ threads[t].pc = "ensure_check"
    /\ IF artifacts["embeddings"] # None
       THEN EnsureReturns(t)
       ELSE Goto(t, "load_exists", 0)
    /\ UNCHANGED <<serverVars, disk, artifacts, build_lock, encodes>>

\* line 94 (called at 124 or 128): the three os.path.exists tests; on
\* FileNotFoundError line 126 decides between building and raising
LoadExists(t) ==
    /\ threads[t].pc = "load_exists"
    /\ IF AllPersisted(disk)
       THEN Goto(t, "load", 1)
       ELSE IF threads[t].attempt = 1 /\ threads[t].rebuild_if_missing
            THEN Goto(t, "acquire", 0)
            ELSE Finish(t, Raised(ErrNotFound))
    /\ UNCHANGED <<serverVars, disk, artifacts, build_lock, encodes>>

\* lines 97-102: pickle.load of the k-th file
LoadFile(t) ==
    /\ threads[t].pc = "load"
    /\ IF disk[FileOrder[threads[t].k]] \in {Partial, NoFile}
       THEN Finish(t, Raised(ErrUnpickle))
       ELSE threads' =
              [threads EXCEPT ![t].loaded[FileOrder[threads[t].k]] =
                                  Load(disk[FileOrder[threads[t].k]]),
                              ![t].pc = IF threads[t].k = 3 THEN "set" ELSE "load",
                              ![t].k = IF threads[t].k = 3 THEN 1 ELSE threads[t].k + 1]
    /\ UNCHANGED <<serverVars, disk, artifacts, build_lock, encodes>>

\* lines 132-134: _ARTIFACTS[key] = the loaded object, one key per statement
SetResident(t) ==
    /\ threads[t].pc = "set"
    /\ artifacts' = [artifacts EXCEPT ![FileOrder[threads[t].k]] =
                                         threads[t].loaded[FileOrder[threads[t].k]]]
    /\ IF threads[t].k = 3 THEN Goto(t, "set_model", 0) ELSE Goto(t, "set", threads[t].k + 1)
    /\ UNCHANGED <<serverVars, disk, build_lock, encodes>>

\* lines 137-138: the sentence-transformer model, when it is not there yet
SetModel(t) ==
    /\ threads[t].pc = "set_model"
    /\ artifacts' = [artifacts EXCEPT !["model"] =
                        IF artifacts["model"] = None
                        THEN [name |-> "all-MiniLM-L6-v2"] ELSE artifacts["model"]]
    /\ EnsureReturns(t)
    /\ UNCHANGED <<serverVars, disk, build_lock, encodes>>

\* lines 204-206: the reads of _ARTIFACTS after ensure_artifacts_ready returned
ReadResident(t) ==
    /\ threads[t].pc = "read"
    /\ threads' = [threads EXCEPT ![t].read[FileOrder[threads[t].k]] =
                                      artifacts[FileOrder[threads[t].k]],
                                  ![t].pc = IF threads[t].k = 3 THEN "compute" ELSE "read",
                                  ![t].k = IF threads[t].k = 3 THEN 0 ELSE threads[t].k + 1]
    /\ UNCHANGED <<serverVars, disk, artifacts, build_lock, encodes>>

\* lines 210-252 on the objects the thread has read
Compute(t) ==
    /\ threads[t].pc = "compute"
    /\ IF \E f \in Files : threads[t].read[f] = None
       THEN Finish(t, Raised(ErrUnset))
       ELSE Finish(t, RecommendContentBody(threads[t].read, ThreadSelected, ThreadTopK, "low"))
    /\ UNCHANGED <<serverVars, disk, artifacts, build_lock, encodes>>

\* line 34: with _build_lock (blocks while another thread holds it)
AcquireBuildLock(t) ==
    /\ threads[t].pc = "acquire"
    /\ build_lock = NoThread
    /\ build_lock' = t
    /\ Goto(t, "build_check", 0)
    /\ UNCHANGED <<serverVars, disk, artifacts, encodes>>

\* _build_and_persist returns to the function that called it
BuildReturns(t) ==
    IF threads[t].name = "_build_and_persist" THEN Finish(t, Returned(None))
    ELSE IF threads[t].name = "build_and_save_model" THEN Goto(t, "clear", 1)
    ELSE threads' = [threads EXCEPT ![t].pc = "load_exists", ![t].attempt = 2]

\* a test that never finds the artifacts
SkipBuild_Never(d) == FALSE

\* line 36: all three artifacts already exist
SkipBuild(d) == AllPersisted(d)

\* lines 36-72 under the lock: skip, raise, or read the catalog and compute the
\* embeddings and the index
BuildUnderLock(t) ==
    /\ threads[t].pc = "build_check"
    /\ IF SkipBuild(disk)
       THEN /\ build_lock' = NoThread
            /\ BuildReturns(t)
            /\ UNCHANGED encodes
       ELSE IF DOMAIN catalog = {}
            THEN /\ build_lock' = NoThread
                 /\ Finish(t, Raised(ErrNoMovies))
                 /\ UNCHANGED encodes
            ELSE \E g \in Layouts :
                    /\ threads' = [threads EXCEPT
                                      ![t].built = [f \in Files |->
                                                      IF f = "metadata" THEN MetadataOf(catalog)
                                                      ELSE EmbeddingsOf(catalog, g)],
                                      ![t].pc = "open", ![t].k = 1]
                    /\ encodes' = encodes + 1
                    /\ UNCHANGED build_lock
    /\ UNCHANGED <<serverVars, disk, artifacts>>

\* lines 75, 77, 85: open(path, "wb") creates or truncates the k-th file
OpenFile(t) ==
    /\ threads[t].pc = "open"
    /\ disk' = [disk EXCEPT ![FileOrder[threads[t].k]] = Partial]
    /\ Goto(t, "dump", threads[t].k)
    /\ UNCHANGED <<serverVars, artifacts, build_lock, encodes>>

\* lines 76, 78, 86: pickle.dump and the close of the k-th file; after the third
\* the with block ends and the lock is released
DumpFile(t) ==
    /\ threads[t].pc = "dump"
    /\ disk' = [disk EXCEPT ![FileOrder[threads[t].k]] =
                               Dump(threads[t].built[FileOrder[threads[t].k]])]
    /\ IF threads[t].k = 3
       THEN /\ build_lock' = NoThread
            /\ BuildReturns(t)
       ELSE /\ Goto(t, "open", threads[t].k + 1)
            /\ UNCHANGED build_lock
    /\ UNCHANGED <<serverVars, artifacts, encodes>>

\* lines 147-149: _ARTIFACTS[key] = None, one key per statement
ClearResident(t) ==
    /\ threads[t].pc = "clear"
    /\ artifacts' = [artifacts EXCEPT ![FileOrder[threads[t].k]] = None]
    /\ IF threads[t].k = 3 THEN Goto(t, "clear_model", 0) ELSE Goto(t, "clear", threads[t].k + 1)
    /\ UNCHANGED <<serverVars, disk, build_lock, encodes>>

\* lines 150-152: the model is cleared and ensure_artifacts_ready(False) is entered
ClearModel(t) ==
    /\ threads[t].pc = "clear_model"
    /\ artifacts' = [artifacts EXCEPT !["model"] = None]
    /\ threads' = [threads EXCEPT ![t].pc = "ensure_check", ![t].rebuild_if_missing = FALSE,
                                  ![t].attempt = 1]
    /\ UNCHANGED <<serverVars, disk, build_lock, encodes>>

ThreadStep(t) ==
    \/ \E c \in ThreadCalls : StartCall(t, c[1], c[2])
    \/ EnsureCheck(t)
    \/ LoadExists(t)
    \/ LoadFile(t)
    \/ SetResident(t)
    \/ SetModel(t)
    \/ ReadResident(t)
    \/ Compute(t)
    \/ AcquireBuildLock(t)
    \/ BuildUnderLock(t)
    \/ OpenFile(t)
    \/ DumpFile(t)
    \/ ClearResident(t)
    \/ ClearModel(t)

InitThreads ==
    /\ ratings = <<>>
    /\ catalog \in MovieFiles
    /\ cf_engine = FALSE
    /\ min_movie_ratings = DefaultMinMovieRatings
    /\ min_user_ratings = DefaultMinUserRatings
    /\ k_neighbors = DefaultKNeighbors
    /\ R = NoMatrix /\ user_ids = <<>> /\ movie_ids = <<>> /\ user_index = <<>>
    /\ movie_index = <<>> /\ user_means = NoMatrix /\ rating_count = 0
    /\ call = Idle
    /\ result = NoResult
    /\ hist = NoHist
    /\ writes = 0
    /\ disk = NoFiles
    /\ artifacts = NoArtifacts
    /\ threads = [t \in Threads |-> IdleThread]
    /\ build_lock = NoThread
    /\ encodes = 0

NextThreads == \E t \in Threads : ThreadStep(t)

SpecThreads == InitThreads /\ [][NextThreads]_vars

-----------------------------------------------------------------------------
(* Properties of the content engine under SpecThreads *)

\* the statements of _build_and_persist that run inside the with block
BuildBody == {"build_check", "open", "dump"}
InBuild(t) == threads[t].pc \in BuildBody

\* every file is there and completely written
AllWritten == \A f \in Files : disk[f] \notin {NoFile, Partial}

(* C11: when threads race through ensure_artifacts_ready(True) or            *)
(* _build_and_persist with no artifacts on disk, the statements inside the   *)
(* lock run in at most one thread at a time, that thread holds _build_lock,  *)
(* and the embeddings are computed at most once: a thread that gets the lock *)
(* after the build finished finds the three files and skips. Every call that *)
(* returns normally has seen exactly one build.                              *)
C11_BuildOnce ==
    /\ \A t, u \in Threads : (InBuild(t) /\ InBuild(u)) => t = u
    /\ \A t \in Threads : InBuild(t) => build_lock = t
    /\ encodes <= 1
    /\ AllWritten => encodes = 1
    /\ \A t \in Threads :
          (threads[t].pc = "idle" /\ threads[t].result.kind = "ok") => encodes = 1

\* a thread that lost the race holds the lock after the build finished
C11_Witness ==
    \E t \in Threads :
        /\ threads[t].pc = "build_check"
        /\ threads[t].name = "ensure_artifacts_ready"
        /\ threads[t].attempt = 1
        /\ AllWritten /\ encodes = 1

\* a thread waits for the lock while another is writing the files
C11_WitnessWaiting ==
    \E t, u \in Threads :
        /\ threads[t].pc = "acquire" /\ threads[u].pc = "dump" /\ build_lock = u

-----------------------------------------------------------------------------
(* Properties of the artifact cache under SpecContent *)

\* ensure_artifacts_ready has just run on its own
EnsureCall == hist.op = "ensure"

\* the three resident entries are the objects the files hold
LoadedFrom(d) == \A f \in Files : artifacts[f] = Load(d[f])

WasResident == hist.before.artifacts["embeddings"] # None
WasPersisted == AllPersisted(hist.before.disk)

\* nothing was written and nothing was bound
Untouched == disk = hist.before.disk /\ artifacts = hist.before.artifacts

(* C12: ensure_artifacts_ready(rebuild_if_missing) returns at once when the   *)
(* embeddings are resident (no load, no build); otherwise it loads the three  *)
(* files when they exist; when they are missing it builds from the catalog    *)
(* and loads if rebuild_if_missing, the build's own error propagating when    *)
(* there is no movie, and otherwise raises the artifacts-missing error with   *)
(* nothing built and the resident entries still unset.                        *)
C12_EnsureReady ==
    EnsureCall =>
        IF WasResident
        THEN Untouched /\ result = Returned(None)
        ELSE IF WasPersisted
        THEN disk = hist.before.disk /\ LoadedFrom(disk) /\ result = Returned(None)
        ELSE IF call.rebuild_if_missing
        THEN IF DOMAIN catalog = {}
             THEN Untouched /\ result = Raised(ErrNoMovies)
             ELSE /\ AllPersisted(disk)
                  /\ Load(disk["metadata"]) = MetadataOf(catalog)
                  /\ LoadedFrom(disk)
                  /\ result = Returned(None)
        ELSE /\ Untouched
             /\ result = Raised(ErrNotFound)
             /\ \A f \in Files : artifacts[f] = None

\* rebuild_if_missing = False with no files: the error, and nothing resident
C12_Witness ==
    /\ EnsureCall /\ ~call.rebuild_if_missing /\ ~WasResident /\ ~WasPersisted
    /\ result = Raised(ErrNotFound)

C12_WitnessResident == EnsureCall /\ WasResident
C12_WitnessLoad == EnsureCall /\ ~WasResident /\ WasPersisted /\ LoadedFrom(disk)
C12_WitnessBuild ==
    EnsureCall /\ ~WasResident /\ ~WasPersisted /\ call.rebuild_if_missing /\ LoadedFrom(disk)

\* build_and_save_model has just returned normally
RebuildReturned == hist.op = "build" /\ result.kind = "ok"

\* the ids of the current catalog, ascending
CatalogIds == SortedList(DOMAIN catalog)

(* C13: after build_and_save_model returns, the persisted and the resident   *)
(* artifacts are built from the current catalog: their movie_ids are the     *)
(* current catalog's ids, even when artifacts of an earlier catalog were on  *)
(* disk before the call.                                                     *)
C13_ForcedRebuildRefreshes ==
    RebuildReturned =>
        /\ Load(disk["metadata"]).movie_ids = CatalogIds
        /\ artifacts["metadata"].movie_ids = CatalogIds

\* a call of the content engine has just built the artifacts and loaded them
BuiltAndLoaded ==
    /\ hist.op \in {"content", "ensure", "build"}
    /\ hist.ready
    /\ ~AllPersisted(hist.before.disk)
    /\ AllPersisted(disk)

\* the four arrays of an artifact set have n entries each
ParallelOfLength(emb, nn, md, n) ==
    /\ emb.n = n /\ nn.n = n
    /\ DOMAIN md.movie_ids = 0..(n - 1)
    /\ DOMAIN md.titles = 0..(n - 1)
    /\ DOMAIN md.genres = 0..(n - 1)

\* position i of the metadata lists is the i-th movie of cat in ascending id order
SameMovies(md, cat) ==
    \A i \in DOMAIN md.movie_ids :
        /\ md.movie_ids[i] \in DOMAIN cat
        /\ Cardinality({m \in DOMAIN cat : m < md.movie_ids[i]}) = i
        /\ md.titles[i] = cat[md.movie_ids[i]].title
        /\ md.genres[i] = cat[md.movie_ids[i]].genres

(* C14: the artifacts a call has built and then loaded have one embedding row *)
(* per movie the catalog had at the build, movie_ids, titles and genres have  *)
(* that same length, and position i of each is the i-th movie in ascending id *)
(* order. Whatever is loaded later from the files is still what was written:  *)
(* the resident arrays equal the persisted ones and stay parallel.            *)
C14_RoundTrip ==
    /\ BuiltAndLoaded =>
          /\ ParallelOfLength(artifacts["embeddings"], artifacts["nn"],
                              artifacts["metadata"], Cardinality(DOMAIN catalog))
          /\ SameMovies(artifacts["metadata"], catalog)
    /\ artifacts["embeddings"] # None =>
          /\ LoadedFrom(disk)
          /\ ParallelOfLength(artifacts["embeddings"], artifacts["nn"],
                              artifacts["metadata"], Len0(artifacts["metadata"].movie_ids))

\* a build of the full catalog followed by the load
C14_Witness ==
    /\ BuiltAndLoaded
    /\ Cardinality(DOMAIN catalog) = NCatalog
    /\ artifacts["embeddings"].n = NCatalog

\* a load in a later process, after the catalog has changed
C14_WitnessLater ==
    /\ hist.op = "ensure" /\ hist.ready /\ ~WasResident /\ WasPersisted
    /\ artifacts["embeddings"].n # Cardinality(DOMAIN catalog)

\* _load_artifacts (lines 89-104) has ended in thread t other than by returning
\* three objects or by reporting the set as missing
LoadBroke(t) ==
    /\ threads[t].pc = "idle"
    /\ threads[t].result = Raised(ErrUnpickle)

\* _load_artifacts has returned in thread t (line 104, back at line 132)
LoadReturned(t) == threads[t].pc = "set" /\ threads[t].k = 1

\* the three objects it returned are completely written and equally long
LoadedWhole(t) ==
    /\ \A f \in Files : threads[t].loaded[f] \notin {None, Partial}
    /\ ParallelOfLength(threads[t].loaded["embeddings"], threads[t].loaded["nn"],
                        threads[t].loaded["metadata"],
                        Len0(threads[t].loaded["metadata"].movie_ids))

(* C15: the persisted set is all-or-nothing for readers: in no interleaving  *)
(* does _load_artifacts return or fail on a set in which a file is absent or *)
(* partially written; it either returns three complete, equally long objects *)
(* or raises the artifacts-missing error of line 95.                         *)
C15_AllOrNothing ==
    \A t \in Threads : ~LoadBroke(t) /\ (LoadReturned(t) => LoadedWhole(t))

\* thread t has read _ARTIFACTS after ensure_artifacts_ready returned to it
HasRead(t) == threads[t].pc = "compute"

(* C17: in every interleaving, the embeddings, the index and the metadata a   *)
(* thread reads from _ARTIFACTS after ensure_artifacts_ready returned to it   *)
(* are all present and are the three objects of one artifact set.             *)
C17_ResidentSetWhole ==
    \A t \in Threads :
        HasRead(t) =>
            /\ \A f \in Files : threads[t].read[f] # None
            /\ \A f \in Files : threads[t].read[f] = Load(disk[f])

-----------------------------------------------------------------------------
(* CF ENGINE, statement by statement: _recommend_for_user up to line 280 as  *)
(* request threads run it on the shared engine (get_cf_engine returns the    *)
(* one instance of the process), with the writers of the rating store.       *)

\* the fields of the engine in the order _build_matrix_from_df assigns them
\* (lines 67, 68, 70, 71, 83, 84)
AssignOrder == <<"user_ids", "movie_ids", "user_index", "movie_index", "R", "user_means">>

ErrIndex == "IndexError: index out of bounds"
ErrNoneMatrix == "TypeError: 'NoneType' object is not subscriptable"

IdleCaller ==
    [name |-> "", pc |-> "idle", k |-> 0, user_id |-> 0, u_idx |-> 0,
     built |-> [ok |-> FALSE], result |-> NoResult, calls |-> 0,
     movie_id |-> 0, j |-> 0, was_rated |-> FALSE, stored |-> NaN,
     user_mean |-> 0, neighbors |-> <<>>]

\* the thread's call ends, returning or raising res
Done(t, res) ==
    threads' = [threads EXCEPT ![t] =
                   [IdleCaller EXCEPT !.name = threads[t].name, !.result = res,
                                      !.user_id = threads[t].user_id,
                                      !.calls = threads[t].calls + 1]]

\* what a statement of the engine leaves alone besides the engine fields
storeVars == <<dbVars, cf_engine, paramVars, call, result, hist, disk, artifacts,
               build_lock, encodes>>

\* a thread enters _recommend_for_user(user_id, selected, top_k)
StartRecommend(t, user_id) ==
    /\ threads[t].pc = "idle" /\ threads[t].calls < MaxCalls
    /\ threads' = [threads EXCEPT ![t] =
                      [IdleCaller EXCEPT !.name = "_recommend_for_user",
                                         !.pc = "fresh", !.user_id = user_id,
                                         !.calls = threads[t].calls]]
    /\ UNCHANGED <<storeVars, engineVars>>

\* lines 87-88: the count is read and compared
FreshTest(t) ==
    /\ threads[t].pc = "fresh"
    /\ IF IsStale(Engine, Count(ratings)) THEN Goto(t, "fetch", 0) ELSE Goto(t, "lookup", 0)
    /\ UNCHANGED <<storeVars, engineVars>>

\* lines 49-52 and 58-65: the frame is fetched, filtered and tested
FetchFrame(t) ==
    /\ threads[t].pc = "fetch"
    /\ IF DOMAIN ratings = {}
       THEN Done(t, Raised(ErrNoRatings))
       ELSE \E m \in {BuildMatrixFromDf(ratings, min_movie_ratings, min_user_ratings)} :
               IF m.ok
               THEN threads' = [threads EXCEPT ![t].built = m, ![t].pc = "assign", ![t].k = 1]
               ELSE Done(t, Raised(ErrFiltered))
    /\ UNCHANGED <<storeVars, engineVars>>

\* the engine after the assignment of field f from the built state m
Assigned(e, f, m) == [e EXCEPT ![f] = m[f]]

\* lines 67-84: one assignment to a field of the engine
AssignField(t) ==
    /\ threads[t].pc = "assign"
    /\ SetEngine(Assigned(Engine, AssignOrder[threads[t].k], threads[t].built))
    /\ IF threads[t].k = Len(AssignOrder)
       THEN Goto(t, "count", 0)
       ELSE Goto(t, "assign", threads[t].k + 1)
    /\ UNCHANGED storeVars

\* line 55: self.rating_count = UserMovieRating.objects.count()
AssignCount(t) ==
    /\ threads[t].pc = "count"
    /\ SetEngine([Engine EXCEPT !.rating_count = Count(ratings)])
    /\ Goto(t, "lookup", 0)
    /\ UNCHANGED storeVars

\* lines 275-278: the user is looked up in user_index
LookupUser(t) ==
    /\ threads[t].pc = "lookup" /\ threads[t].name = "_recommend_for_user"
    /\ IF threads[t].user_id \notin DOMAIN user_index
       THEN Done(t, Raised(ErrUnknownUser))
       ELSE threads' = [threads EXCEPT ![t].u_idx = user_index[threads[t].user_id],
                                       ![t].pc = "row"]
    /\ UNCHANGED <<storeVars, engineVars>>

\* lines 279-280: target_vec = self.R[u_idx, :]; mean = self.user_means[u_idx]
ReadRow(t) ==
    /\ threads[t].pc = "row"
    /\ IF R = NoMatrix \/ user_means = NoMatrix
       THEN Done(t, Raised(ErrNoneMatrix))
       ELSE IF threads[t].u_idx \notin DOMAIN R \/ threads[t].u_idx \notin DOMAIN user_means
            THEN Done(t, Raised(ErrIndex))
            ELSE Done(t, Returned(R[threads[t].u_idx]))
    /\ UNCHANGED <<storeVars, engineVars>>

CallerStep(t) ==
    \/ \E user_id \in Users : StartRecommend(t, user_id)
    \/ FreshTest(t)
    \/ FetchFrame(t)
    \/ AssignField(t)
    \/ AssignCount(t)
    \/ LookupUser(t)
    \/ ReadRow(t)

InitRebuild ==
    /\ ratings \in Datasets
    /\ catalog = [m \in Movies |-> [title |-> TitleOf(m), genres |-> ""]]
    /\ cf_engine = TRUE
    /\ min_movie_ratings = DefaultMinMovieRatings
    /\ min_user_ratings = DefaultMinUserRatings
    /\ k_neighbors = DefaultKNeighbors
    /\ R = NoMatrix /\ user_ids = <<>> /\ movie_ids = <<>> /\ user_index = <<>>
    /\ movie_index = <<>> /\ user_means = NoMatrix /\ rating_count = 0
    /\ call = Idle
    /\ result = NoResult
    /\ hist = NoHist
    /\ writes = 0
    /\ disk = NoFiles
    /\ artifacts = NoArtifacts
    /\ threads = [t \in Threads |-> IdleCaller]
    /\ build_lock = NoThread
    /\ encodes = 0

NextRebuild ==
    \/ \E t \in Threads : CallerStep(t)
    \/ \E file \in Datasets : ImportRatings(file)

SpecRebuild == InitRebuild /\ [][NextRebuild]_vars

\* the matrix, the means and the two index maps have matching sizes
SizesAgree ==
    IF R = NoMatrix
    THEN user_means = NoMatrix /\ DOMAIN user_index = {} /\ DOMAIN movie_index = {}
    ELSE /\ Len0(R) = Cardinality(DOMAIN user_index)
         /\ \A i \in DOMAIN R : Len0(R[i]) = Cardinality(DOMAIN movie_index)
         /\ user_means # NoMatrix
         /\ Len0(user_means) = Cardinality(DOMAIN user_index)

\* a reader of lines 279-280 failed on an engine whose parts do not fit
ReaderBroke(t) ==
    /\ threads[t].pc = "idle"
    /\ threads[t].result \in {Raised(ErrIndex), Raised(ErrNoneMatrix)}

(* C16: the CF matrix state is replaced atomically: in every reachable state, *)
(* also while a thread is inside a rebuild, the matrix has len(user_index)    *)
(* rows and len(movie_index) columns and user_means has len(user_index)       *)
(* entries, and no reader of the row of a user found in user_index fails.     *)
C16_MatrixSwappedWhole ==
    /\ SizesAgree
    /\ \A t \in Threads : ~ReaderBroke(t)

-----------------------------------------------------------------------------
(* SIMILARITY: _cosine as a function of the matrix, the two rows and the      *)
(* selected list (collabfiltering.py lines 95-154).  The engine holds the     *)
(* matrix built from a frame of two users.                                    *)

MaxSimSel == 2
SimUsers == {1, 2}

\* the frames over the users U and the movies M: ratings 1, 2 or 4 for movies 1
\* and 2, the rating 2 for the other movies
FramesOver(U, M) ==
    {f @@ [p \in S |-> 2] :
        f \in UNION {[T -> {1, 2, 4}] : T \in SUBSET (U \X (M \cap {1, 2}))},
        S \in SUBSET (U \X (M \ {1, 2}))}

\* the frames in which both users have rated something
SimFrames == {f \in FramesOver(SimUsers, Movies) : FrameUsers(f) = SimUsers}

\* selected ids: two movie ids and one id no frame holds
SimIds == {1, 2, NMovies + 1}
SimSelections == UNION {[1..n -> SimIds] : n \in 0..MaxSimSel}

\* the float _cosine returns: its value in fixed point, and whether it is above 1.0
CosineValue(Rm, mindex, u_idx, v_idx, selected_ids) ==
    [sim |-> Cosine(Rm, mindex, u_idx, v_idx, selected_ids),
     above |-> CosineAboveOne(Rm, mindex, u_idx, v_idx, selected_ids)]

InitCosine ==
    /\ ratings \in SimFrames
    /\ catalog = [m \in Movies |-> [title |-> TitleOf(m), genres |-> ""]]
    /\ cf_engine = TRUE
    /\ min_movie_ratings = 1
    /\ min_user_ratings = 1
    /\ k_neighbors = DefaultKNeighbors
    /\ \E m \in {BuildMatrixFromDf(ratings, 1, 1)} :
          /\ R = m.R /\ user_ids = m.user_ids /\ movie_ids = m.movie_ids
          /\ user_index = m.user_index /\ movie_index = m.movie_index
          /\ user_means = m.user_means
    /\ rating_count = Count(ratings)
    /\ call = Idle
    /\ result = NoResult
    /\ hist = NoHist
    /\ writes = 0
    /\ disk = NoFiles
    /\ artifacts = NoArtifacts
    /\ threads = NoThreads
    /\ build_lock = NoThread
    /\ encodes = 0

\* self._cosine(u_idx, v_idx, selected_ids) for two distinct rows
CallCosine(u_idx, v_idx, selected_ids) ==
    /\ call = Idle
    /\ u_idx # v_idx
    /\ call' = [op |-> "_cosine", u_idx |-> u_idx, v_idx |-> v_idx,
                selected_ids |-> selected_ids]
    /\ result' = Returned(CosineValue(R, movie_index, u_idx, v_idx, selected_ids))
    /\ UNCHANGED <<dbVars, paramVars, cf_engine, engineVars, hist, contentVars>>

NextCosine ==
    \E u_idx \in DOMAIN R, v_idx \in DOMAIN R, selected_ids \in SimSelections :
        CallCosine(u_idx, v_idx, selected_ids)

SpecCosine == InitCosine /\ [][NextCosine]_vars

\* the co-rated columns of the two rows of the call
CallMask == {j \in DOMAIN R[call.u_idx] : R[call.u_idx][j] # NaN /\ R[call.v_idx][j] # NaN}
CosineCall == call.op = "_cosine"

\* C18 (src/recommender/collabfiltering.py:95-154): the similarity of two
\* distinct user rows is a float in [0, 1], and it is 0 when the rows have
\* fewer than two co-rated movies or when the product of the norms over the
\* co-rated columns is 0.
C18_SimilarityInUnitInterval ==
    CosineCall =>
        /\ result.kind = "ok"
        /\ result.value.sim >= 0 /\ result.value.sim <= Scale
        /\ ~result.value.above
        /\ Cardinality(CallMask) < 2 => (result.value.sim = 0 /\ ~result.value.above)
        /\ (Dot(R[call.u_idx], R[call.u_idx], CallMask) = 0
              \/ Dot(R[call.v_idx], R[call.v_idx], CallMask) = 0)
           => (result.value.sim = 0 /\ ~result.value.above)

\* the part of C18 on rows with fewer than two co-rated movies
C18_FewCoRatedIsZero ==
    (CosineCall /\ Cardinality(CallMask) < 2) => (result.value.sim = 0 /\ ~result.value.above)

C18_AboveOneReturned == CosineCall /\ result.value.above

\* C19 (src/recommender/collabfiltering.py:95-154): similarity is symmetric:
\* the value _cosine returned for (u, v, selected_ids) is the value it gives
\* for (v, u, selected_ids), with and without a boost.
C19_Symmetric ==
    CosineCall =>
        result.value = CosineValue(R, movie_index, call.v_idx, call.u_idx, call.selected_ids)

\* the agreement score of the call, counted position by position
PositionScore(a, b, i) ==
    IF call.selected_ids[i] \notin DOMAIN movie_index THEN 0
    ELSE IF a[movie_index[call.selected_ids[i]]] = NaN
              \/ b[movie_index[call.selected_ids[i]]] = NaN THEN 0
    ELSE IF 2 * Abs(a[movie_index[call.selected_ids[i]]] - b[movie_index[call.selected_ids[i]]]) <= 1
         THEN 2
    ELSE IF 2 * Abs(a[movie_index[call.selected_ids[i]]] - b[movie_index[call.selected_ids[i]]]) <= 3
         THEN 1
    ELSE 0
CallScore ==
    SumOver(DOMAIN call.selected_ids,
            [i \in DOMAIN call.selected_ids |-> PositionScore(R[call.u_idx], R[call.v_idx], i)])

\* rows whose ratings of the selected movies differ, boosted to a value below 1
C19_Witness ==
    /\ CosineCall
    /\ CallScore = 1
    /\ result.value.sim > 0 /\ result.value.sim < Scale
    /\ R[call.u_idx] # R[call.v_idx]

\* x <= y for two returned floats
SimLeq(x, y) == x.sim < y.sim \/ (x.sim = y.sim /\ (x.above => y.above))

\* the movies both rows of the call rate within 0.5 of each other
AgreedMovies ==
    {m \in DOMAIN movie_index :
        /\ R[call.u_idx][movie_index[m]] # NaN /\ R[call.v_idx][movie_index[m]] # NaN
        /\ 2 * Abs(R[call.u_idx][movie_index[m]] - R[call.v_idx][movie_index[m]]) <= 1}

Computed ==
    /\ Cardinality(CallMask) >= 2
    /\ Dot(R[call.u_idx], R[call.u_idx], CallMask) # 0
    /\ Dot(R[call.v_idx], R[call.v_idx], CallMask) # 0

\* C20 (src/recommender/collabfiltering.py:122-154): the boost is monotonic
\* and capped: appending a selected movie both users rated within 0.5 of each
\* other never lowers the similarity and never takes it above 1.0, and a
\* positive accumulator adds min(0.3, 0.05 * accumulator) to the base
\* similarity, where a selected movie rated by both adds 2 for a difference
\* <= 0.5 and 1 for a difference <= 1.5.
C20_BoostMonotoneCapped ==
    CosineCall =>
        /\ \A m \in AgreedMovies :
              \A after \in {CosineValue(R, movie_index, call.u_idx, call.v_idx,
                                        Append(call.selected_ids, m))} :
                 /\ SimLeq(result.value, after)
                 /\ after.sim <= Scale /\ ~after.above
        /\ (Computed /\ CallScore > 0) =>
              /\ result.value.sim
                   = Min(Scale, BaseSim(R[call.u_idx], R[call.v_idx], CallMask)
                                  + Min((3 * Scale) \div 10, (5 * CallScore * Scale) \div 100))
              /\ ~result.value.above

\* the part of C20 on the size of the boost and its cap
C20_BoostFormula ==
    (CosineCall /\ Computed /\ CallScore > 0) =>
        /\ result.value.sim
             = Min(Scale, BaseSim(R[call.u_idx], R[call.v_idx], CallMask)
                            + Min((3 * Scale) \div 10, (5 * CallScore * Scale) \div 100))
        /\ ~result.value.above
        /\ \A m \in AgreedMovies :
              Cosine(R, movie_index, call.u_idx, call.v_idx, Append(call.selected_ids, m))
                 >= result.value.sim

\* an unboosted similarity above 1.0 with a movie the two rows agree on
C20_DropsOnAppend ==
    /\ CosineCall /\ result.value.above
    /\ \E m \in AgreedMovies :
          ~SimLeq(result.value,
                  CosineValue(R, movie_index, call.u_idx, call.v_idx, Append(call.selected_ids, m)))

-----------------------------------------------------------------------------
(* The scenario of the specification under Spec *)

\* the six ratings of the scenario
ScenarioRatings ==
    StoreOf({<<1,1,5>>, <<1,2,4>>, <<2,1,5>>, <<2,2,4>>, <<2,3,3>>, <<3,1,1>>})

\* recommend for user 1 with selected = [1] and top_k >= 1 has just run on an engine
\* with both thresholds 1 that holds the matrix built from the scenario's ratings
ScenarioRecommend ==
    /\ hist.op = "recommend" /\ hist.counted
    /\ ratings = ScenarioRatings
    /\ min_movie_ratings = 1 /\ min_user_ratings = 1
    /\ HoldsBuilt(BuiltNow)
    /\ call.user.id = 1 /\ call.selected = <<1>> /\ call.top_k >= 1

(* C21: from the six ratings of the scenario with both thresholds 1, the matrix *)
(* retains users 1, 2 and 3; users 1 and 2 have base similarity 1.0; user 3 has *)
(* similarity 0 to user 1; user 2 is user 1's only neighbor; and recommend for  *)
(* user 1 with selected = [1] and top_k >= 1 returns exactly one row, movie 3,  *)
(* predicted as mean(u1) + (3 - mean(u2)) = 3.5.                                *)
C21_Scenario ==
    ScenarioRecommend =>
        /\ user_ids = (0 :> 1 @@ 1 :> 2 @@ 2 :> 3)
        /\ movie_ids = (0 :> 1 @@ 1 :> 2 @@ 2 :> 3)
        /\ CosineValue(R, movie_index, 0, 1, <<>>) = [sim |-> Scale, above |-> FALSE]
        /\ Cosine(R, movie_index, 0, 2, <<>>) = 0
        /\ Cosine(R, movie_index, 0, 2, call.selected) = 0
        /\ Len(TargetNeighbors) = 1
        /\ TargetNeighbors[1].idx = 1 /\ TargetNeighbors[1].sim > 0
        /\ result.kind = "ok"
        /\ Len(result.value) = 1
        /\ result.value[1].id = 3
        /\ result.value[1].predicted_rating
             = user_means[0] + ((3 * Scale) - user_means[1])
        /\ result.value[1].predicted_rating = (7 * Scale) \div 2

\* the scenario's call has returned from a matrix it found stale and rebuilt
C21_Witness == ScenarioRecommend /\ hist.rebuilt /\ result.kind = "ok"

\* the scenario's call has answered from the matrix an earlier call built
C21_WitnessCached == ScenarioRecommend /\ ~hist.stale /\ result.kind = "ok"

-----------------------------------------------------------------------------
(* NEIGHBORS: _neighbors as a function of the matrix, the row, the selected    *)
(* list and k_neighbors (collabfiltering.py lines 156-176).                    *)

MaxNeighborK == 2

\* the frames over the users and the first two movies
NeighborFrames == {f \in FramesOver(Users, 1..2) : DOMAIN f # {}}

NeighborSelections == {<<>>, <<1>>}

InitNeighbors ==
    /\ ratings \in NeighborFrames
    /\ catalog = [m \in Movies |-> [title |-> TitleOf(m), genres |-> ""]]
    /\ cf_engine = TRUE
    /\ min_movie_ratings = 1
    /\ min_user_ratings = 1
    /\ k_neighbors \in 1..MaxNeighborK
    /\ \E m \in {BuildMatrixFromDf(ratings, 1, 1)} :
          /\ R = m.R /\ user_ids = m.user_ids /\ movie_ids = m.movie_ids
          /\ user_index = m.user_index /\ movie_index = m.movie_index
          /\ user_means = m.user_means
    /\ rating_count = Count(ratings)
    /\ call = Idle
    /\ result = NoResult
    /\ hist = NoHist
    /\ writes = 0
    /\ disk = NoFiles
    /\ artifacts = NoArtifacts
    /\ threads = NoThreads
    /\ build_lock = NoThread
    /\ encodes = 0

\* self._neighbors(u_idx, selected_ids)
CallNeighbors(u_idx, selected_ids) ==
    /\ call = Idle
    /\ call' = [op |-> "_neighbors", u_idx |-> u_idx, selected_ids |-> selected_ids]
    /\ result' = Returned(Neighbors(R, movie_index, u_idx, selected_ids, k_neighbors))
    /\ UNCHANGED <<dbVars, paramVars, cf_engine, engineVars, hist, contentVars>>

NextNeighbors ==
    \E u_idx \in DOMAIN R, selected_ids \in NeighborSelections :
        CallNeighbors(u_idx, selected_ids)

SpecNeighbors == InitNeighbors /\ [][NextNeighbors]_vars

NeighborsCall == call.op = "_neighbors"

\* the similarity of row v to the row of the call, and the order of two of them
SimTo(v) == CosineValue(R, movie_index, call.u_idx, v, call.selected_ids)
SimLess(x, y) == x.sim < y.sim \/ (x.sim = y.sim /\ ~x.above /\ y.above)
ReturnedRows == {result.value[i].idx : i \in DOMAIN result.value}

(* C22: the list _neighbors(u, selected_ids) returns never contains u, contains *)
(* only rows with strictly positive similarity to u, has at most k_neighbors    *)
(* entries, is in non-increasing order of similarity with rows of equal         *)
(* similarity in ascending row order, and leaves out no row whose similarity is *)
(* strictly greater than that of a returned row.                                *)
C22_NeighborsList ==
    NeighborsCall =>
        /\ result.kind = "ok"
        /\ call.u_idx \notin ReturnedRows
        /\ ReturnedRows \subseteq DOMAIN R
        /\ \A i \in DOMAIN result.value :
              /\ result.value[i].sim = SimTo(result.value[i].idx).sim
              /\ result.value[i].sim > 0
        /\ Len(result.value) <= k_neighbors
        /\ \A i, j \in DOMAIN result.value :
              i < j =>
                 /\ result.value[i].idx # result.value[j].idx
                 /\ ~SimLess(SimTo(result.value[i].idx), SimTo(result.value[j].idx))
                 /\ SimTo(result.value[i].idx) = SimTo(result.value[j].idx)
                       => result.value[i].idx < result.value[j].idx
        /\ \A v \in (DOMAIN R) \ (ReturnedRows \cup {call.u_idx}), w \in ReturnedRows :
              ~SimLess(SimTo(w), SimTo(v))

\* two rows of equal similarity came back, the similarity below 1
C22_Witness ==
    /\ NeighborsCall /\ Len(result.value) = 2
    /\ result.value[1].sim = result.value[2].sim
    /\ result.value[1].sim < Scale
    /\ result.value[1].idx > call.u_idx

\* k_neighbors cut the list: a row of positive similarity was left out
C22_WitnessCut ==
    /\ NeighborsCall /\ Len(result.value) = k_neighbors
    /\ \E v \in (DOMAIN R) \ (ReturnedRows \cup {call.u_idx}) : SimTo(v).sim > 0

\* a float above 1.0 came back ahead of a 1.0 from an earlier row
C22_WitnessAbove ==
    /\ NeighborsCall /\ Len(result.value) = 2
    /\ SimTo(result.value[1].idx).above /\ ~SimTo(result.value[2].idx).above
    /\ result.value[2].sim = Scale
    /\ result.value[1].idx > result.value[2].idx

\* a row of similarity 0 was left out
C22_WitnessZero ==
    /\ NeighborsCall
    /\ \E v \in (DOMAIN R) \ (ReturnedRows \cup {call.u_idx}) : SimTo(v).sim = 0
    /\ Len(result.value) = 1 /\ k_neighbors > 1

\* the test of line 88 finds the cache fresh
CacheFresh == R # NoMatrix /\ rating_count = Count(ratings)

(* C23: whenever the cache is considered fresh (a matrix is present and         *)
(* rating_count equals the number of stored ratings), the matrix reflects the   *)
(* store: for every stored rating of a retained user and movie the cell         *)
(* R[user_index[u], movie_index[m]] holds that rating.                          *)
C23_FreshCacheReflectsStore ==
    CacheFresh =>
        \A p \in DOMAIN ratings :
            (p[1] \in DOMAIN user_index /\ p[2] \in DOMAIN movie_index)
               => R[user_index[p[1]]][movie_index[p[2]]] = ratings[p]

\* a call has answered from a cache it found fresh while a cell differs from the store
C23_StaleAnswer ==
    /\ EngineCall /\ ~hist.stale /\ result.kind = "ok"
    /\ \E p \in DOMAIN ratings :
          /\ p[1] \in DOMAIN user_index /\ p[2] \in DOMAIN movie_index
          /\ R[user_index[p[1]]][movie_index[p[2]]] # ratings[p]

\* the rebuild of the last call failed
RebuildFailed == EngineCall /\ hist.stale /\ ~hist.rebuilt

(* C24: a failed rebuild changes nothing: when _build_matrix fails because the  *)
(* store is empty or because the thresholds remove every rating, the matrix,    *)
(* the id lists, the index maps, the means and rating_count are as they were    *)
(* before the call, and the cache is still stale, so the next call attempts the *)
(* rebuild again.                                                               *)
C24_FailedRebuildChangesNothing ==
    RebuildFailed =>
        /\ result.kind = "error"
        /\ result.error = (IF DOMAIN ratings = {} THEN ErrNoRatings ELSE ErrFiltered)
        /\ ~BuiltNow.ok \/ DOMAIN ratings = {}
        /\ Engine = hist.before
        /\ IsStale(Engine, Count(ratings))

\* a rebuild failed on filtering while an earlier matrix was cached
C24_Witness == RebuildFailed /\ hist.before.R # NoMatrix /\ result = Raised(ErrFiltered)

\* a rebuild failed on an empty store while an earlier matrix was cached
C24_WitnessEmpty == RebuildFailed /\ hist.before.R # NoMatrix /\ result = Raised(ErrNoRatings)

(* C25: a CF recommend call that does not fail returns a non-empty list when    *)
(* top_k >= 1: too little data is reported as an error, never as an empty list, *)
(* also when every predicted candidate is in selected_ids or is missing from    *)
(* the catalog.                                                                 *)
C25_NeverEmpty ==
    (RecommendReturned /\ call.top_k >= 1) => Len(result.value) >= 1

\* an empty list came back because every predicted movie was selected
C25_EmptyAllSelected ==
    /\ RecommendReturned /\ call.top_k >= 1
    /\ Len(result.value) = 0
    /\ \A j \in DOMAIN TargetPreds :
          TargetPreds[j] # NaN => InList(movie_ids[j], call.selected)

-----------------------------------------------------------------------------
(* VALIDATION: validate_cf (cf_validation.py) on an engine of its own.  The    *)
(* engine variables are the fields of the instance created at line 23.         *)

\* k_neighbors: int = 50
ValidateK == 50

\* the message of line 17 (its dash written in ASCII)
ErrNoValidate == "No ratings in DB - cannot validate."
ErrNoTrain == "train set will be empty"
ErrNoOverlap == "No overlapping data to validate CF."

\* the number of test rows of train_test_split(df, test_size=0.2): ceil(0.2 * n)
TestSize(n) == (n + 4) \div 5

\* the rows of df outside / inside the test set
Restrict(df, S) == [p \in S |-> df[p]]

InitValidate ==
    /\ ratings \in Datasets
    /\ catalog = [m \in Movies |-> [title |-> TitleOf(m), genres |-> ""]]
    /\ cf_engine = FALSE
    /\ min_movie_ratings = DefaultMinMovieRatings
    /\ min_user_ratings = DefaultMinUserRatings
    /\ k_neighbors = ValidateK
    /\ R = NoMatrix /\ user_ids = <<>> /\ movie_ids = <<>> /\ user_index = <<>>
    /\ movie_index = <<>> /\ user_means = NoMatrix /\ rating_count = 0
    /\ call = Idle
    /\ result = NoResult
    /\ hist = NoHist
    /\ writes = 0
    /\ disk = NoFiles
    /\ artifacts = NoArtifacts
    /\ threads = NoThreads
    /\ build_lock = NoThread
    /\ encodes = 0

\* lines 23-24 with the split in hand: the train frame is injected into a new engine
InjectTrain(test, m) ==
    IF m.ok
    THEN /\ SetEngine([R |-> m.R, user_ids |-> m.user_ids, movie_ids |-> m.movie_ids,
                       user_index |-> m.user_index, movie_index |-> m.movie_index,
                       user_means |-> m.user_means, rating_count |-> NewEngine.rating_count])
         /\ call' = [op |-> "validate_cf", pc |-> "loop"]
         /\ result' = NoResult
         /\ hist' = [op |-> "validate", test |-> test, todo |-> test, injected |-> m.R,
                     used |-> NoMatrix, tested |-> 0, predicted |-> FALSE]
    ELSE /\ UNCHANGED engineVars
         /\ call' = [op |-> "validate_cf", pc |-> "done"]
         /\ result' = Raised(ErrFiltered)
         /\ hist' = NoHist

\* validate_cf up to the loop (lines 14-24); test is the set train_test_split holds out
ValidateCf(test) ==
    /\ call = Idle
    /\ IF DOMAIN ratings = {}
       THEN /\ test = {}
            /\ UNCHANGED engineVars
            /\ call' = [op |-> "validate_cf", pc |-> "done"]
            /\ result' = Raised(ErrNoValidate)
            /\ hist' = NoHist
       ELSE /\ test \subseteq DOMAIN ratings
            /\ Cardinality(test) = TestSize(Count(ratings))
            /\ IF test = DOMAIN ratings
               THEN /\ UNCHANGED engineVars
                    /\ call' = [op |-> "validate_cf", pc |-> "done"]
                    /\ result' = Raised(ErrNoTrain)
                    /\ hist' = NoHist
               ELSE \E m \in {BuildMatrixFromDf(Restrict(ratings, (DOMAIN ratings) \ test),
                                                min_movie_ratings, min_user_ratings)} :
                       InjectTrain(test, m)
    /\ UNCHANGED <<dbVars, paramVars, cf_engine, contentVars>>

\* lines 41-48 for the test row p: predict_single on the engine, exceptions swallowed
ValidatePredict(p, o) ==
    /\ SetEngine(o.eng)
    /\ hist' = [hist EXCEPT !.todo = @ \ {p},
                            !.used = IF o.result.kind = "ok" THEN o.fresh.eng.R ELSE @,
                            !.predicted = @ \/ o.result.kind = "ok",
                            !.tested = IF o.result.kind = "ok" /\ ~o.result.value.none
                                       THEN @ + 1 ELSE @]

\* one pass of the loop (lines 29-48) for the test row p
ValidateRow(p) ==
    /\ call.op = "validate_cf" /\ call.pc = "loop"
    /\ p \in hist.todo
    /\ IF p[1] \notin DOMAIN user_index \/ p[2] \notin DOMAIN movie_index
       THEN /\ UNCHANGED engineVars
            /\ hist' = [hist EXCEPT !.todo = @ \ {p}]
       ELSE \E o \in {PredictSingle(Engine, ratings, min_movie_ratings, min_user_ratings,
                                    k_neighbors, p[1], p[2])} :
               ValidatePredict(p, o)
    /\ UNCHANGED <<dbVars, paramVars, cf_engine, call, result, contentVars>>

\* lines 50-64: the loop is over
ValidateReturn ==
    /\ call.op = "validate_cf" /\ call.pc = "loop"
    /\ hist.todo = {}
    /\ call' = [op |-> "validate_cf", pc |-> "done"]
    /\ result' = IF hist.tested = 0 THEN Raised(ErrNoOverlap)
                 ELSE Returned([total_tested |-> hist.tested])
    /\ UNCHANGED <<dbVars, paramVars, cf_engine, engineVars, hist, contentVars>>

NextValidate ==
    \/ \E test \in SUBSET (Users \X Movies) : ValidateCf(test)
    \/ \E p \in Users \X Movies : ValidateRow(p)
    \/ ValidateReturn

SpecValidate == InitValidate /\ [][NextValidate]_vars

\* validate_cf is in its loop or past it, with the train frame injected
Validating == call.op = "validate_cf" /\ hist.op = "validate"

\* a held-out rating is in the engine's matrix
HeldOutPresent ==
    \E p \in hist.test :
        /\ p[1] \in DOMAIN user_index /\ p[2] \in DOMAIN movie_index
        /\ R[user_index[p[1]]][movie_index[p[2]]] = ratings[p]

(* C26: in validate_cf every prediction for a held-out rating is computed from  *)
(* the train-only matrix injected with _build_matrix_from_df: predict_single    *)
(* never replaces that matrix with one rebuilt from the full rating store, so   *)
(* no held-out rating is in the matrix used for a prediction.                   *)
C26_TrainOnly ==
    Validating =>
        /\ R = hist.injected
        /\ hist.predicted => hist.used = hist.injected
        /\ ~HeldOutPresent

\* a prediction was made from a matrix that holds a held-out rating
C26_Leak ==
    /\ Validating /\ hist.predicted /\ hist.tested > 0
    /\ hist.used # hist.injected
    /\ HeldOutPresent

-----------------------------------------------------------------------------
(* CF ENGINE, statement by statement: predict_single on the shared engine      *)
(* while other threads rebuild it.  self.R names the matrix object current at  *)
(* the time a statement runs; a step is one statement or one run of statements *)
(* (lines 191-201, 204-205, 206-227), so the interleavings of the model are    *)
(* interleavings of the code.                                                  *)

\* a thread enters predict_single(user_id, movie_id)
StartPredict(t, user_id, movie_id) ==
    /\ threads[t].pc = "idle" /\ threads[t].calls < MaxCalls
    /\ threads' = [threads EXCEPT ![t] =
                      [IdleCaller EXCEPT !.name = "predict_single",
                                         !.pc = "fresh", !.user_id = user_id,
                                         !.movie_id = movie_id,
                                         !.calls = threads[t].calls]]
    /\ UNCHANGED <<storeVars, engineVars>>

\* self.R[u, j] can be read or written
CellThere(u, j) == R # NoMatrix /\ u \in DOMAIN R /\ j \in DOMAIN R[u]

\* the exception a statement raises on self.R[u, j] when the cell is not there
CellError == IF R = NoMatrix THEN Raised(ErrNoneMatrix) ELSE Raised(ErrIndex)

\* lines 194-201 with the two indices in hand
ReadTarget(t, u, j) ==
    IF CellThere(u, j)
    THEN threads' = [threads EXCEPT ![t].u_idx = u, ![t].j = j,
                                    ![t].was_rated = R[u][j] # NaN,
                                    ![t].stored = R[u][j],
                                    ![t].pc = IF R[u][j] # NaN THEN "hide" ELSE "neighbors"]
    ELSE Done(t, CellError)

\* lines 191-201: the indices are looked up and the target cell is read
PredictLookup(t) ==
    /\ threads[t].pc = "lookup" /\ threads[t].name = "predict_single"
    /\ IF threads[t].user_id \notin DOMAIN user_index
            \/ threads[t].movie_id \notin DOMAIN movie_index
       THEN Done(t, Returned(NoValue))
       ELSE ReadTarget(t, user_index[threads[t].user_id], movie_index[threads[t].movie_id])
    /\ UNCHANGED <<storeVars, engineVars>>

\* line 202: self.R[u_idx, j] = np.nan
HideTarget(t) ==
    /\ threads[t].pc = "hide"
    /\ IF CellThere(threads[t].u_idx, threads[t].j)
       THEN /\ SetEngine([Engine EXCEPT !.R = HideCell(R, threads[t].u_idx, threads[t].j)])
            /\ Goto(t, "neighbors", 0)
       ELSE /\ Done(t, CellError)
            /\ UNCHANGED engineVars
    /\ UNCHANGED storeVars

\* lines 204-205: user_mean and the neighbor list
FindNeighbors(t) ==
    /\ threads[t].pc = "neighbors"
    /\ IF R = NoMatrix \/ user_means = NoMatrix
       THEN Done(t, Raised(ErrNoneMatrix))
       ELSE IF threads[t].u_idx \notin DOMAIN R \/ threads[t].u_idx \notin DOMAIN user_means
            THEN Done(t, Raised(ErrIndex))
            ELSE threads' = [threads EXCEPT
                                ![t].user_mean = TargetMean(user_means, threads[t].u_idx),
                                ![t].neighbors = Neighbors(R, movie_index, threads[t].u_idx,
                                                           <<>>, k_neighbors),
                                ![t].pc = "restore"]
    /\ UNCHANGED <<storeVars, engineVars>>

\* the cells lines 206-222 touch are there
LoopReadable(t) ==
    /\ user_means # NoMatrix
    /\ CellThere(threads[t].u_idx, threads[t].j)
    /\ \A n \in DOMAIN threads[t].neighbors :
          /\ CellThere(threads[t].neighbors[n].idx, threads[t].j)
          /\ threads[t].neighbors[n].idx \in DOMAIN user_means

\* lines 206-227: the loop over the neighbors, the restore of the cell, the return
RestoreTarget(t) ==
    /\ threads[t].pc = "restore"
    /\ IF LoopReadable(t)
       THEN \E b \in {PredictWith(R, threads[t].was_rated, threads[t].stored,
                                  threads[t].user_mean, threads[t].neighbors,
                                  user_means, threads[t].u_idx, threads[t].j)} :
               /\ SetEngine([Engine EXCEPT !.R = b.R])
               /\ Done(t, Returned(b.value))
       ELSE /\ Done(t, CellError)
            /\ UNCHANGED engineVars
    /\ UNCHANGED storeVars

\* calls each thread makes on the shared engine
SharedCalls == 1

\* thread 1 validates or inspects with predict_single; the others serve
\* recommend requests of user 1
SharedStep(t) ==
    \/ /\ t = 1 /\ threads[t].calls < SharedCalls
       /\ \E user_id \in Users, movie_id \in Movies : StartPredict(t, user_id, movie_id)
    \/ /\ t # 1 /\ threads[t].calls < SharedCalls
       /\ StartRecommend(t, 1)
    \/ FreshTest(t)
    \/ FetchFrame(t)
    \/ AssignField(t)
    \/ AssignCount(t)
    \/ LookupUser(t)
    \/ ReadRow(t)
    \/ PredictLookup(t)
    \/ HideTarget(t)
    \/ FindNeighbors(t)
    \/ RestoreTarget(t)

InitShared ==
    /\ ratings \in Datasets
    /\ catalog = [m \in Movies |-> [title |-> TitleOf(m), genres |-> ""]]
    /\ cf_engine = TRUE
    /\ min_movie_ratings = DefaultMinMovieRatings
    /\ min_user_ratings = DefaultMinUserRatings
    /\ k_neighbors = DefaultKNeighbors
    /\ R = NoMatrix /\ user_ids = <<>> /\ movie_ids = <<>> /\ user_index = <<>>
    /\ movie_index = <<>> /\ user_means = NoMatrix /\ rating_count = 0
    /\ call = Idle
    /\ result = NoResult
    /\ hist = [op |-> "start", store |-> ratings]
    /\ writes = 0
    /\ disk = NoFiles
    /\ artifacts = NoArtifacts
    /\ threads = [t \in Threads |-> IdleCaller]
    /\ build_lock = NoThread
    /\ encodes = 0

NextShared ==
    \/ \E t \in Threads : SharedStep(t)
    \/ \E file \in Datasets : ImportRatings(file)

SpecShared == InitShared /\ [][NextShared]_vars

\* no thread is inside a call
AllReturned == \A t \in Threads : threads[t].pc = "idle"

\* the matrices a build from the first store or from the store as it is now assigns
BuiltMatrices ==
    {m.R : m \in {b \in {BuildMatrixFromDf(hist.store, min_movie_ratings, min_user_ratings),
                         BuildMatrixFromDf(ratings, min_movie_ratings, min_user_ratings)} :
                    b.ok}}

(* C27: concurrent use of the shared engine never leaves an inconsistent        *)
(* matrix: in every interleaving of predict_single with the rebuilds other      *)
(* threads' calls trigger after rating changes, once all calls have returned    *)
(* every cell of the cached matrix has the value the build that produced the    *)
(* matrix assigned.                                                             *)
C27_MatrixAsBuilt ==
    (AllReturned /\ R # NoMatrix) => R \in BuiltMatrices

\* both threads made one call that returned normally, the cache counts as fresh
\* for the store as it is now, and the matrix is none that a build assigned
C27_RestoredIntoRebuilt ==
    /\ AllReturned /\ R # NoMatrix
    /\ \A t \in Threads : threads[t].calls = 1 /\ threads[t].result.kind = "ok"
    /\ ratings # hist.store
    /\ rating_count = Cardinality(DOMAIN ratings) /\ rating_count > 0
    /\ R \notin BuiltMatrices
    /\ \A i \in DOMAIN R : \A j \in DOMAIN R[i] : R[i][j] # NaN

====
